---------------------------- MODULE Spec2Model ----------------------------
(***************************************************************************)
(* A model of terasu-RM's rewriting mirror (package mirror, cmd/rmirror).  *)
(*                                                                         *)
(* Strings are sequences of one-character strings, so that prefix tests,   *)
(* trimming, joining, URL parsing and URL printing are computed the way    *)
(* the Go code computes them.                                              *)
(*                                                                         *)
(* Specifications:                                                         *)
(*   Spec          the request lifecycle of one Mirror: internal           *)
(*                 endpoints, route match, admission gate, upstream        *)
(*                 round-trip, streaming, observation (Mirror.ServeHTTP).  *)
(*   SpecRoute     route table construction, matchRoute and the director.  *)
(*   SpecRewrite   modifyResponse: Location and WWW-Authenticate rewrite.  *)
(*   SpecFallback  fallbackRoundTripper.RoundTrip.                         *)
(*   SpecReload    the dynamicHandler, reloadConfig and requests around it. *)
(***************************************************************************)
EXTENDS Integers, Sequences, FiniteSets, TLC

(***************************************************************************)
(* Go's strings package on character sequences.                            *)
(***************************************************************************)
HasPrefix(s, p) == Len(p) <= Len(s) /\ SubSeq(s, 1, Len(p)) = p

HasSuffix(s, p) == Len(p) <= Len(s) /\ SubSeq(s, Len(s) - Len(p) + 1, Len(s)) = p

TrimPrefix(s, p) == IF HasPrefix(s, p) THEN SubSeq(s, Len(p) + 1, Len(s)) ELSE s

TrimSuffix(s, p) == IF HasSuffix(s, p) THEN SubSeq(s, 1, Len(s) - Len(p)) ELSE s

\* strings.Index(s[from:], sub) + from, as a 0-based offset; -1 when absent.
IndexFrom(s, sub, from) ==
    LET C == {i \in from..(Len(s) - Len(sub)) : SubSeq(s, i + 1, i + Len(sub)) = sub}
    IN  IF C = {} THEN -1 ELSE CHOOSE i \in C : \A j \in C : i <= j

Contains(s, sub) == IndexFrom(s, sub, 0) >= 0

\* The last 0-based offset of sub in s; -1 when absent (strings.LastIndex).
LastIndex(s, sub) ==
    LET C == {i \in 0..(Len(s) - Len(sub)) : SubSeq(s, i + 1, i + Len(sub)) = sub}
    IN  IF C = {} THEN -1 ELSE CHOOSE i \in C : \A j \in C : i >= j

UpperCase == <<"A", "B", "C", "E", "L", "M", "R", "U">>

LowerCase == <<"a", "b", "c", "e", "l", "m", "r", "u">>

\* unicode.ToLower on the ASCII letters the model uses.
LowerChar(c) ==
    IF \E k \in 1..Len(UpperCase) : UpperCase[k] = c
    THEN LowerCase[CHOOSE k \in 1..Len(UpperCase) : UpperCase[k] = c]
    ELSE c

\* Bytes above 0x7F: the three bytes of U+212A (the Kelvin sign, whose lower
\* case is the one byte "k"), a lone 0xE9 (not valid UTF-8) and the three
\* bytes of U+FFFD, which strings.Map writes for a byte that is not valid UTF-8.
KelvinSign == <<"xE2", "x84", "xAA">>

ReplacementChar == <<"xEF", "xBF", "xBD">>

HighBytes == {"xE2", "x84", "xAA", "xE9", "xEF", "xBF", "xBD"}

\* strings.ToLower: rune by rune, so the result of a value with bytes above
\* 0x7F may be shorter or longer than the value.
RECURSIVE ToLower(_)
ToLower(s) ==
    IF s = <<>> THEN <<>>
    ELSE IF Head(s) \notin HighBytes THEN <<LowerChar(Head(s))>> \o ToLower(Tail(s))
    ELSE IF Len(s) >= 3 /\ SubSeq(s, 1, 3) = KelvinSign
         THEN <<"k">> \o ToLower(SubSeq(s, 4, Len(s)))
    ELSE IF Len(s) >= 3 /\ SubSeq(s, 1, 3) = ReplacementChar
         THEN ReplacementChar \o ToLower(SubSeq(s, 4, Len(s)))
    ELSE ReplacementChar \o ToLower(Tail(s))

EqualFold(a, b) == ToLower(a) = ToLower(b)

RECURSIVE TrimLeftSpace(_)
TrimLeftSpace(s) ==
    IF s # <<>> /\ Head(s) = " " THEN TrimLeftSpace(Tail(s)) ELSE s

RECURSIVE TrimRightSpace(_)
TrimRightSpace(s) ==
    IF s # <<>> /\ s[Len(s)] = " " THEN TrimRightSpace(SubSeq(s, 1, Len(s) - 1)) ELSE s

TrimSpace(s) == TrimRightSpace(TrimLeftSpace(s))

\* strings.Split(s, "/")
RECURSIVE SplitSlash(_)
SplitSlash(s) ==
    LET i == IndexFrom(s, <<"/">>, 0)
    IN  IF i < 0 THEN <<s>>
        ELSE <<SubSeq(s, 1, i)>> \o SplitSlash(SubSeq(s, i + 2, Len(s)))

RECURSIVE CleanSegs(_, _)
CleanSegs(segs, out) ==
    IF segs = <<>> THEN out
    ELSE LET h == Head(segs)
         IN  CleanSegs(Tail(segs),
                 IF h = <<>> \/ h = <<".">> THEN out
                 ELSE IF h = <<".", ".">>
                      THEN (IF out = <<>> THEN out ELSE SubSeq(out, 1, Len(out) - 1))
                      ELSE Append(out, h))

RECURSIVE JoinSlash(_)
JoinSlash(segs) ==
    IF segs = <<>> THEN <<>> ELSE <<"/">> \o Head(segs) \o JoinSlash(Tail(segs))

\* The cleaned elements put together again; no element left is the root.
RootedJoin(segs) == IF segs = <<>> THEN <<"/">> ELSE JoinSlash(segs)

\* path.Clean on a rooted path: empty and "." elements dropped, ".." removes
\* the element before it (and is dropped at the root), no trailing slash.
PathClean(p) == RootedJoin(CleanSegs(SplitSlash(p), <<>>))

\* sort.SliceStable(seq, key descending): the element at place p is the one
\* with p-1 elements before it (larger key, or equal key and earlier index).
StableSortDesc(seq, key) ==
    LET n == Len(seq)
        rank(i) == Cardinality({j \in 1..n : key[j] > key[i]
                                             \/ (key[j] = key[i] /\ j < i)}) + 1
    IN  [p \in 1..n |-> seq[CHOOSE i \in 1..n : rank(i) = p]]

(***************************************************************************)
(* net/url on the characters the model uses: letters, digits and           *)
(* / : ? . _ - = , " and the space (no %, # or @).                         *)
(***************************************************************************)
Letters == {"a", "b", "c", "d", "e", "f", "g", "h", "i", "j", "k", "l", "m", "n",
            "o", "p", "q", "r", "s", "t", "u", "v", "w", "x", "y", "z",
            "A", "B", "E", "L", "M", "R", "U"}

Digits == {"0", "1", "2", "3", "4", "5", "6", "7", "8", "9"}

SchemeChars == Letters \cup Digits \cup {"+", "-", "."}

NoURL == [ok |-> FALSE, Scheme |-> <<>>, Opaque |-> <<>>, Host |-> <<>>,
          Path |-> <<>>, RawQuery |-> <<>>]

\* The port of a host, if any, is ':' followed by digits only (validOptionalPort).
ValidHost(h) ==
    LET c == LastIndex(h, <<":">>)
    IN  /\ \A i \in 1..Len(h) : h[i] # " "
        /\ c >= 0 => \A i \in (c + 2)..Len(h) : h[i] \in Digits

\* The first character that cannot be part of a scheme (0 when there is none).
FirstNonSchemeChar(raw) ==
    LET bad == {i \in 1..Len(raw) : raw[i] \notin SchemeChars}
    IN  IF bad = {} THEN 0 ELSE CHOOSE i \in bad : \A j \in bad : i <= j

\* getScheme: the scheme before the first ':' when only scheme characters,
\* starting with a letter, precede it; a leading ':' is an error.
getScheme(raw) ==
    LET stop == FirstNonSchemeChar(raw)
    IN  IF stop > 0 /\ raw[stop] = ":"
        THEN IF stop = 1 THEN [ok |-> FALSE, scheme |-> <<>>, rest |-> raw]
             ELSE IF raw[1] \in Letters
                  THEN [ok |-> TRUE, scheme |-> SubSeq(raw, 1, stop - 1),
                        rest |-> SubSeq(raw, stop + 1, Len(raw))]
                  ELSE [ok |-> TRUE, scheme |-> <<>>, rest |-> raw]
        ELSE [ok |-> TRUE, scheme |-> <<>>, rest |-> raw]

\* strings.Cut(rest, "?")
CutQuery(rest) ==
    LET q == IndexFrom(rest, <<"?">>, 0)
    IN  IF q < 0 THEN [path |-> rest, query |-> <<>>]
        ELSE [path |-> SubSeq(rest, 1, q), query |-> SubSeq(rest, q + 2, Len(rest))]

\* The "//" authority up to the next '/', and the path from there on.
parseAuthority(scheme, rest, query) ==
    LET after == SubSeq(rest, 3, Len(rest))
        sl    == IndexFrom(after, <<"/">>, 0)
    IN  IF ~ValidHost(IF sl < 0 THEN after ELSE SubSeq(after, 1, sl)) THEN NoURL
        ELSE [ok |-> TRUE, Scheme |-> scheme, Opaque |-> <<>>,
              Host |-> IF sl < 0 THEN after ELSE SubSeq(after, 1, sl),
              Path |-> IF sl < 0 THEN <<>> ELSE SubSeq(after, sl + 1, Len(after)),
              RawQuery |-> query]

\* url.parse after the scheme and the query are cut off.
parseRest(scheme, rest, query) ==
    IF ~HasPrefix(rest, <<"/">>) /\ scheme # <<>>
    THEN [ok |-> TRUE, Scheme |-> scheme, Opaque |-> rest, Host |-> <<>>,
          Path |-> <<>>, RawQuery |-> query]
    ELSE IF ~HasPrefix(rest, <<"/">>) /\ Contains(Head(SplitSlash(rest)), <<":">>)
         THEN NoURL
    ELSE IF (scheme # <<>> \/ ~HasPrefix(rest, <<"/", "/", "/">>))
            /\ HasPrefix(rest, <<"/", "/">>)
         THEN parseAuthority(scheme, rest, query)
    ELSE [ok |-> TRUE, Scheme |-> scheme, Opaque |-> <<>>, Host |-> <<>>,
          Path |-> rest, RawQuery |-> query]

\* url.parse once the query is cut off the rest.
parseCut(scheme, c) == parseRest(scheme, c.path, c.query)

\* url.parse once getScheme has returned: the scheme is lower-cased.
parseAfterScheme(s) ==
    IF ~s.ok THEN NoURL ELSE parseCut(ToLower(s.scheme), CutQuery(s.rest))

\* url.Parse: scheme (lower-cased), "?" query, "//" authority, path.
urlParse(raw) == parseAfterScheme(getScheme(raw))

\* URL.EscapedPath with RawPath empty: the space and the quote are escaped.
RECURSIVE EscapedPath(_)
EscapedPath(p) ==
    IF p = <<>> THEN <<>>
    ELSE (IF Head(p) = " " THEN <<"%", "2", "0">>
          ELSE IF Head(p) = "\"" THEN <<"%", "2", "2">>
          ELSE <<Head(p)>>) \o EscapedPath(Tail(p))

\* URL.String for a URL without opaque part, user or fragment.
urlString(u) ==
    LET ep == EscapedPath(u.Path)
    IN  (IF u.Scheme # <<>> THEN u.Scheme \o <<":">> ELSE <<>>)
        \o (IF (u.Scheme # <<>> \/ u.Host # <<>>) /\ (u.Host # <<>> \/ u.Path # <<>>)
            THEN <<"/", "/">> \o u.Host ELSE <<>>)
        \o (IF ep # <<>> /\ Head(ep) # "/" /\ u.Host # <<>> THEN <<"/">> ELSE <<>>)
        \o ep
        \o (IF u.RawQuery # <<>> THEN <<"?">> \o u.RawQuery ELSE <<>>)

(***************************************************************************)
(* Configuration: normalizePath, parseUpstream, validateRoutes.            *)
(***************************************************************************)
Slash == <<"/">>

SchemeHTTP == <<"h", "t", "t", "p">>

SchemeHTTPS == <<"h", "t", "t", "p", "s">>

\* normalizePath, last step: no trailing slash except on the root.
trimTrailingSlash(p) ==
    IF p # Slash /\ HasSuffix(p, Slash) THEN TrimSuffix(p, Slash) ELSE p

\* normalizePath, after path.Clean: "." is the root.
dotToSlash(p) == IF p = <<".">> THEN Slash ELSE p

normalizePath(raw) ==
    IF raw = <<>> THEN Slash
    ELSE trimTrailingSlash(dotToSlash(PathClean(
             IF HasPrefix(raw, Slash) THEN raw ELSE Slash \o raw)))

\* parseUpstream: "https://" is put before a value without "://".
withDefaultScheme(c) ==
    IF Contains(c, <<":", "/", "/">>) THEN c ELSE SchemeHTTPS \o <<":", "/", "/">> \o c

\* parseUpstream: the checks on the parsed URL.
checkUpstream(u) ==
    IF ~u.ok THEN NoURL
    ELSE IF u.Scheme # SchemeHTTP /\ u.Scheme # SchemeHTTPS THEN NoURL
    ELSE IF u.Host = <<>> THEN NoURL
    ELSE u

\* parseUpstream on the trimmed value.
parseTrimmedUpstream(c) ==
    IF c = <<>> THEN NoURL ELSE checkUpstream(urlParse(withDefaultScheme(c)))

parseUpstream(raw) == parseTrimmedUpstream(TrimSpace(raw))

\* validateRoutes: the root prefix is recorded as the empty key.
rootAsEmpty(n) == IF n = Slash THEN <<>> ELSE n

validatePrefixKey(rc) ==
    rootAsEmpty(normalizePath(IF rc.PublicPrefix = <<>> THEN Slash ELSE rc.PublicPrefix))

validateRoutes(cfgRoutes) ==
    /\ Len(cfgRoutes) > 0
    /\ \A i \in 1..Len(cfgRoutes) :
          /\ cfgRoutes[i].Upstream # <<>>
          /\ \A j \in 1..(i - 1) :
                validatePrefixKey(cfgRoutes[j]) # validatePrefixKey(cfgRoutes[i])
          /\ parseUpstream(cfgRoutes[i].Upstream).ok

(***************************************************************************)
(* Routes: newRoute, matchesPath, stripPrefix, joinUpstreamPath,           *)
(* mapUpstreamPath, joinPaths, hasPathPrefix.                              *)
(***************************************************************************)
\* An empty path stands for the root.
emptyAsSlash(p) == IF p = <<>> THEN Slash ELSE p

\* newRoute: the base path the route joins with, without trailing slash.
trimBasePath(basePath) ==
    IF basePath = Slash THEN Slash ELSE emptyAsSlash(TrimSuffix(basePath, Slash))

\* newRoute: the route made of the normalized prefix, upstream and base path.
routeOf(rc, prefix, up, basePath) ==
    [name              |-> rc.Name,
     publicPrefix      |-> prefix,
     publicPrefixSlash |-> IF prefix = Slash THEN Slash ELSE prefix \o Slash,
     upstream          |-> [Scheme |-> up.Scheme, Host |-> up.Host, Path |-> basePath],
     upstreamBasePath  |-> trimBasePath(basePath),
     preserveHost      |-> rc.PreserveHost]

\* newRoute once the upstream is parsed.
routeOfUpstream(rc, prefix, up) ==
    routeOf(rc, prefix, up, emptyAsSlash(normalizePath(up.Path)))

newRoute(rc) ==
    routeOfUpstream(rc, emptyAsSlash(normalizePath(emptyAsSlash(rc.PublicPrefix))),
                    parseUpstream(rc.Upstream))

matchesPath(r, path) ==
    IF r.publicPrefix = Slash THEN TRUE
    ELSE IF path = r.publicPrefix THEN TRUE
    ELSE HasPrefix(path, r.publicPrefixSlash)

stripPrefix(r, path) ==
    IF r.publicPrefix = Slash
    THEN (IF path = <<>> THEN Slash ELSE path)
    ELSE LET trimmed == TrimPrefix(path, r.publicPrefix)
         IN  IF trimmed = <<>> THEN Slash
             ELSE IF ~HasPrefix(trimmed, Slash) THEN Slash \o trimmed
             ELSE trimmed

\* Variant of joinPaths that only concatenates.
joinPathsConcat(a, b) == a \o b

joinPaths(a, b) ==
    LET aSlash == HasSuffix(a, Slash)
        bSlash == HasPrefix(b, Slash)
    IN  IF aSlash /\ bSlash THEN a \o Tail(b)
        ELSE IF ~aSlash /\ ~bSlash THEN a \o Slash \o b
        ELSE a \o b

hasPathPrefix(path, prefix) ==
    IF prefix = Slash THEN TRUE
    ELSE IF path = prefix THEN TRUE
    ELSE HasPrefix(path, prefix \o Slash)

joinUpstreamPath(r, path) == joinPaths(r.upstreamBasePath, path)

\* Variant of mapUpstreamPath that does not strip the base path.
mapUpstreamPathWhole(r, upstreamPath) == joinPaths(r.publicPrefix, upstreamPath)

mapUpstreamPath(r, upstreamPath) ==
    LET stripped ==
            IF r.upstreamBasePath # Slash /\ hasPathPrefix(upstreamPath, r.upstreamBasePath)
            THEN IF upstreamPath = r.upstreamBasePath THEN Slash
                 ELSE LET t == TrimPrefix(upstreamPath, r.upstreamBasePath)
                      IN  IF t = <<>> THEN Slash ELSE t
            ELSE upstreamPath
    IN  joinPaths(r.publicPrefix, stripped)

(***************************************************************************)
(* Mirror: buildRoutes, routesByUpstream, matchRoute, director,            *)
(* resolvePublicBase, schemeFromRequest.                                   *)
(***************************************************************************)
\* A nil *route.
NilRoute == [name |-> <<"n", "i", "l">>, publicPrefix |-> <<>>, publicPrefixSlash |-> <<>>,
             upstream |-> [Scheme |-> <<>>, Host |-> <<>>, Path |-> <<>>],
             upstreamBasePath |-> <<>>, preserveHost |-> FALSE]

\* Variant of sortByPrefix that keeps the configured order.
sortByPrefixNone(rs) == rs

\* buildRoutes: longest public prefix first, stable.
sortByPrefix(rs) ==
    StableSortDesc(rs, [i \in 1..Len(rs) |-> Len(rs[i].publicPrefix)])

buildRoutes(cfgRoutes) ==
    sortByPrefix([i \in 1..Len(cfgRoutes) |-> newRoute(cfgRoutes[i])])

\* New: routesByUpstream is the route table re-sorted by base path length.
buildRoutesByUpstream(routes) ==
    StableSortDesc(routes, [i \in 1..Len(routes) |-> Len(routes[i].upstreamBasePath)])

matchRoute(routes, path) ==
    LET M == {i \in 1..Len(routes) : matchesPath(routes[i], path)}
    IN  IF M = {} THEN NilRoute ELSE routes[CHOOSE i \in M : \A j \in M : i <= j]

\* A nil *publicBase (no public_base_url configured).
NilBase == [Scheme |-> <<"n", "i", "l">>, Host |-> <<>>]

\* The first element of strings.Split(s, ",").
FirstCommaPart(s) ==
    LET i == IndexFrom(s, <<",">>, 0)
    IN  IF i < 0 THEN s ELSE SubSeq(s, 1, i)

schemeFromRequest(req) ==
    IF req.XForwardedProto # <<>> THEN TrimSpace(FirstCommaPart(req.XForwardedProto))
    ELSE IF req.TLS THEN SchemeHTTPS
    ELSE SchemeHTTP

resolvePublicBase(publicBase, req) ==
    IF publicBase # NilBase THEN publicBase
    ELSE [Scheme |-> schemeFromRequest(req), Host |-> req.Host]

\* The outbound request the director leaves, with the context values it attaches.
director(publicBase, r, req) ==
    LET trimmed == stripPrefix(r, req.Path)
    IN  [Scheme     |-> r.upstream.Scheme,
         URLHost    |-> r.upstream.Host,
         Path       |-> joinUpstreamPath(r, trimmed),
         RawPath    |-> <<>>,
         RawQuery   |-> req.RawQuery,
         Host       |-> IF ~r.preserveHost THEN r.upstream.Host ELSE req.Host,
         ctxBase    |-> resolvePublicBase(publicBase, req),
         ctxRoute   |-> r]

(***************************************************************************)
(* Response rewriting: parseAbsoluteURL, matchUpstreamURL, rewriteURL,     *)
(* rewriteAuthHeader, modifyResponse.                                      *)
(***************************************************************************)
\* parseAbsoluteURL: a parsed URL without scheme and host is an error.
absoluteOnly(u) ==
    IF ~u.ok THEN NoURL
    ELSE IF u.Scheme = <<>> /\ u.Host = <<>> THEN NoURL
    ELSE u

parseAbsoluteURL(raw) == absoluteOnly(urlParse(raw))

\* matchUpstreamURL: the three tests of the loop body.
upstreamMatches(r, u) ==
    /\ EqualFold(u.Host, r.upstream.Host)
    /\ ~(r.upstreamBasePath # Slash /\ ~hasPathPrefix(u.Path, r.upstreamBasePath))
    /\ ~(r.upstream.Scheme # <<>> /\ u.Scheme # <<>>
         /\ ~EqualFold(u.Scheme, r.upstream.Scheme))

\* Variant of upstreamMatches that does not look at the base path.
upstreamMatchesHostOnly(r, u) ==
    /\ EqualFold(u.Host, r.upstream.Host)
    /\ ~(r.upstream.Scheme # <<>> /\ u.Scheme # <<>>
         /\ ~EqualFold(u.Scheme, r.upstream.Scheme))

\* matchUpstreamURL: the first route of routesByUpstream that matches.
firstUpstreamMatch(routes, u) ==
    LET M == {i \in 1..Len(routes) : upstreamMatches(routes[i], u)}
    IN  IF M = {} THEN NilRoute ELSE routes[CHOOSE i \in M : \A j \in M : i <= j]

matchUpstreamURL(routes, u) ==
    IF ~u.ok \/ u.Host = <<>> THEN NilRoute ELSE firstUpstreamMatch(routes, u)

\* rewriteURL returning "", false.
NotRewritten == [ok |-> FALSE, url |-> <<>>]

\* rewriteURL once the route is looked up.
rewriteMatched(u, route, pb) ==
    IF route = NilRoute THEN NotRewritten
    ELSE IF pb.Host = <<>> \/ pb.Scheme = <<>> THEN NotRewritten
    ELSE [ok  |-> TRUE,
          url |-> urlString([u EXCEPT !.Scheme = pb.Scheme, !.Host = pb.Host,
                                      !.Path = mapUpstreamPath(route, u.Path)])]

\* rewriteURL once the URL is parsed.
rewriteParsed(m, u, pb) ==
    IF ~u.ok THEN NotRewritten
    ELSE rewriteMatched(u, matchUpstreamURL(m.routesByUpstream, u), pb)

\* A variant that gives up while other requests are in flight.
rewriteURLWhenAlone(m, raw, pb) ==
    IF m.inflight > 1 THEN NotRewritten ELSE rewriteParsed(m, parseAbsoluteURL(raw), pb)

rewriteURL(m, raw, pb) == rewriteParsed(m, parseAbsoluteURL(raw), pb)

RealmKey == <<"r", "e", "a", "l", "m", "=">>

Quote == <<"\"">>

\* rewriteAuthHeader ending in a run-time panic (slice bounds out of range).
AuthPanic == [out |-> <<>>, changed |-> FALSE, panic |-> TRUE]

\* After the loop: b.WriteString(value[idx:]).
authFinish(value, idx, b, changed) ==
    IF idx > Len(value) THEN AuthPanic
    ELSE [out |-> b \o SubSeq(value, idx + 1, Len(value)), changed |-> changed,
          panic |-> FALSE]

\* The unquoted form ends at the next ',' or at the end of the value.
commaEnd(value, start) ==
    CHOOSE e \in start..Len(value) :
        /\ e = Len(value) \/ value[e + 1] = ","
        /\ \A k \in start..(e - 1) : value[k + 1] # ","

RECURSIVE rewriteAuthFrom(_, _, _, _, _, _, _)

\* The quoted form once rewriteURL has run on value[start+1 : end].
quotedResult(m, pb, value, lower, b, changed, start, end, rw) ==
    rewriteAuthFrom(m, pb, value, lower, end + 1,
                    IF rw.ok THEN b \o Quote \o rw.url \o Quote
                    ELSE b \o SubSeq(value, start + 1, end + 1),
                    changed \/ rw.ok)

\* The quoted form: end is the offset of the closing quote, -1 without one.
rewriteQuoted(m, pb, value, lower, b, changed, start, end) ==
    IF end < 0 THEN authFinish(value, start, b, changed)
    ELSE quotedResult(m, pb, value, lower, b, changed, start, end,
                      rewriteURL(m, SubSeq(value, start + 2, end), pb))

\* The unquoted form once rewriteURL has run on the trimmed value[start : end].
unquotedResult(m, pb, value, lower, b, changed, start, end, rw) ==
    rewriteAuthFrom(m, pb, value, lower, end,
                    IF rw.ok THEN b \o rw.url ELSE b \o SubSeq(value, start + 1, end),
                    changed \/ rw.ok)

rewriteUnquoted(m, pb, value, lower, b, changed, start, end) ==
    unquotedResult(m, pb, value, lower, b, changed, start, end,
                   rewriteURL(m, TrimSpace(SubSeq(value, start + 1, end)), pb))

\* The loop body after "realm=" is copied: start is the offset behind it.
rewriteAuthRealm(m, pb, value, lower, b, changed, start) ==
    IF start >= Len(value) THEN authFinish(value, start, b, changed)
    ELSE IF value[start + 1] = "\""
         THEN rewriteQuoted(m, pb, value, lower, b, changed, start,
                            IndexFrom(value, Quote, start + 1))
    ELSE rewriteUnquoted(m, pb, value, lower, b, changed, start,
                         commaEnd(value, start))

\* The loop body once "realm=" is searched in lower[idx:]: pos is its offset
\* in lower, used as an offset in value.
rewriteAuthAt(m, pb, value, lower, idx, b, changed, pos) ==
    IF pos < 0 THEN authFinish(value, idx, b, changed)
    ELSE IF pos + Len(RealmKey) > Len(value) THEN AuthPanic
    ELSE rewriteAuthRealm(m, pb, value, lower,
                          b \o SubSeq(value, idx + 1, pos + Len(RealmKey)),
                          changed, pos + Len(RealmKey))

\* One turn of the loop of rewriteAuthHeader, from offset idx.
rewriteAuthFrom(m, pb, value, lower, idx, b, changed) ==
    IF idx > Len(lower) THEN AuthPanic
    ELSE rewriteAuthAt(m, pb, value, lower, idx, b, changed,
                       IndexFrom(lower, RealmKey, idx))

rewriteAuthHeader(m, value, pb) ==
    rewriteAuthFrom(m, pb, value, ToLower(value), 0, <<>>, FALSE)

\* modifyResponse: the Location header after rewriteURL.
locationResult(loc, rw) == IF rw.ok THEN rw.url ELSE loc

rewriteLocation(m, pb, loc) ==
    IF loc = <<>> THEN loc ELSE locationResult(loc, rewriteURL(m, loc, pb))

\* modifyResponse: the WWW-Authenticate values, re-emitted in their order.
authValuesResult(values, rs) ==
    [i \in 1..Len(values) |-> IF rs[i].changed THEN rs[i].out ELSE values[i]]

\* modifyResponse once both headers are worked on; a panic in
\* rewriteAuthHeader ends the handler.
modifyResponseWith(resp, loc, rs) ==
    IF \E i \in 1..Len(rs) : rs[i].panic
    THEN [panic |-> TRUE, Location |-> <<>>, Auth |-> <<>>]
    ELSE [panic |-> FALSE, Location |-> loc, Auth |-> authValuesResult(resp.Auth, rs)]

\* modifyResponse: the headers of the response as the client gets them.
modifyResponse(m, pb, resp) ==
    IF pb.Host = <<>> \/ pb.Scheme = <<>>
    THEN [panic |-> FALSE, Location |-> resp.Location, Auth |-> resp.Auth]
    ELSE modifyResponseWith(resp, rewriteLocation(m, pb, resp.Location),
             [i \in 1..Len(resp.Auth) |-> rewriteAuthHeader(m, resp.Auth[i], pb)])

(***************************************************************************)
(* The fallback chain: fallbackFragmentLens, NewTransport,                 *)
(* fallbackRoundTripper.RoundTrip, shouldRetry, canRetryRequest,           *)
(* cloneRequest, isConnReset.                                              *)
(***************************************************************************)
DefaultFirstFragmentLen == 3

\* Config.Runtime: the first_fragment_len of the RuntimeConfig (0 is taken
\* as not set; the range check of 0..255 follows).
runtimeFirstFragmentLen(configured) ==
    IF configured = 0 THEN DefaultFirstFragmentLen ELSE configured

\* mirrorDialer.handshake: the ClientHello goes out in fragments.
handshakeFragmented(firstFragmentLen) == firstFragmentLen > 0

\* A variant that falls back to the plain handshake at once.
fallbackFragmentLensPlainOnly(current) ==
    IF current > 0 THEN <<0>> ELSE <<>>

fallbackFragmentLens(current) ==
    IF current > 1 THEN <<1, 0>>
    ELSE IF current = 1 THEN <<0>>
    ELSE <<>>

\* NewTransport: the primary transport alone when there is no fallback
\* length, else a fallbackRoundTripper with one fallback transport per
\* length; New then hands its metrics to the fallbackRoundTripper.
NewTransport(frag) ==
    [chain             |-> fallbackFragmentLens(frag) # <<>>,
     primaryFragment   |-> frag,
     fallbacks         |-> Len(fallbackFragmentLens(frag)),
     fallbackFragments |-> fallbackFragmentLens(frag),
     metrics           |-> fallbackFragmentLens(frag) # <<>>]

MethodGet == <<"G", "E", "T">>

MethodHead == <<"H", "E", "A", "D">>

MethodOptions == <<"O", "P", "T", "I", "O", "N", "S">>

MethodPost == <<"P", "O", "S", "T">>

\* The error value nil.
NilErr == [nil |-> TRUE, wraps |-> "", msg |-> <<>>]

\* An error by the sentinel errors.Is finds in its chain and by its text.
Err(wraps, msg) == [nil |-> FALSE, wraps |-> wraps, msg |-> msg]

ResetText ==
    <<"c", "o", "n", "n", "e", "c", "t", "i", "o", "n", " ", "r", "e", "s", "e", "t",
      " ", "b", "y", " ", "p", "e", "e", "r">>

isConnReset(err) ==
    \/ err.wraps \in {"ECONNRESET", "EPIPE", "EOF"}
    \/ Contains(ToLower(err.msg), ResetText)

\* A variant that takes every request for retriable.
canRetryRequestAlways(req) == TRUE

canRetryRequest(req) ==
    \/ req.Method \in {MethodGet, MethodHead, MethodOptions}
    \/ req.Body = "nil"
    \/ req.ContentLength = 0
    \/ req.GetBody

\* A variant that retries after every error.
shouldRetryAnyError(req, err) ==
    /\ ~err.nil
    /\ canRetryRequest(req)

shouldRetry(req, err) ==
    /\ ~err.nil
    /\ canRetryRequest(req)
    /\ isConnReset(err)

\* cloneRequest: req.Clone, and a fresh body from GetBody when the request
\* has a body and a GetBody; bodyErr is whether that call of GetBody fails.
cloneRequest(req, bodyErr) ==
    IF req.Body \in {"nil", "NoBody"} THEN [ok |-> TRUE, clone |-> req]
    ELSE IF ~req.GetBody THEN [ok |-> TRUE, clone |-> req]
    ELSE IF bodyErr THEN [ok |-> FALSE, clone |-> req]
    ELSE [ok |-> TRUE, clone |-> [req EXCEPT !.Body = "body"]]

\* nextFrag of the i-th fallback (i counts from 0).
nextFragment(t, i, prevFrag) ==
    IF i < Len(t.fallbackFragments) THEN t.fallbackFragments[i + 1] ELSE prevFrag

\* A variant that labels every transition as coming from the primary.
observeFallbackFromPrimary(t, counted, from, to) ==
    IF t.metrics THEN Append(counted, <<t.primaryFragment, to>>) ELSE counted

\* metrics.observeFallback: one increment of the counter labelled (from, to).
observeFallback(t, counted, from, to) ==
    IF t.metrics THEN Append(counted, <<from, to>>) ELSE counted

(***************************************************************************)
(* Mirror.New, the admission gate and the internal endpoints.              *)
(***************************************************************************)
\* New: the route tables, the static public base and, when MaxInflight > 0,
\* a channel of that capacity (cap = 0 stands for the nil channel) together
\* with the wait bound.
newMirror(cfg, routes) ==
    [routes           |-> routes,
     routesByUpstream |-> buildRoutesByUpstream(routes),
     publicBase       |-> cfg.PublicBase,
     cap              |-> IF cfg.MaxInflight > 0 THEN cfg.MaxInflight ELSE 0,
     wait             |-> IF cfg.MaxInflight > 0 THEN cfg.MaxInflightWait ELSE 0]

New(cfg) == newMirror(cfg, buildRoutes(cfg.Routes))

StatusOK == 200

StatusNotFound == 404

StatusRequestTimeout == 408

StatusTooManyRequests == 429

StatusBadGateway == 502

StatusServiceUnavailable == 503

HealthzPath == <<"/", "_", "r", "m", "i", "r", "r", "o", "r", "/", "h", "e", "a", "l", "t", "h", "z">>

ReadyzPath == <<"/", "_", "r", "m", "i", "r", "r", "o", "r", "/", "r", "e", "a", "d", "y", "z">>

MetricsPath == <<"/", "m", "e", "t", "r", "i", "c", "s">>

\* Variant of serveInternal that reports busy only beyond capacity.
\* A variant without internal endpoints: every path goes to the routes.
serveInternalNone(m, len, path) == 0

serveInternalStrict(m, len, path) ==
    IF path = HealthzPath THEN StatusOK
    ELSE IF path = ReadyzPath
         THEN (IF m.cap # 0 /\ len > m.cap THEN StatusServiceUnavailable ELSE StatusOK)
    ELSE IF path = MetricsPath THEN StatusOK
    ELSE 0

\* serveInternal: the status written for an internal path, 0 when the path
\* is not internal (the function returns false).  len is len(m.maxInflight).
serveInternal(m, len, path) ==
    IF path = HealthzPath THEN StatusOK
    ELSE IF path = ReadyzPath
         THEN (IF m.cap # 0 /\ len >= m.cap THEN StatusServiceUnavailable ELSE StatusOK)
    ELSE IF path = MetricsPath THEN StatusOK
    ELSE 0

\* Variant of acquireNoWait whose send succeeds whatever the channel holds.
acquireNoWaitAlways(m, len) == [ok |-> TRUE, len |-> len + 1, status |-> 0]

\* Variant of acquireNoWait that keeps one place of the channel unused.
acquireNoWaitShort(m, len) ==
    IF len + 1 < m.cap THEN [ok |-> TRUE, len |-> len + 1, status |-> 0]
    ELSE [ok |-> FALSE, len |-> len, status |-> StatusTooManyRequests]

\* acquire, max_inflight_wait <= 0: a non-blocking send on the channel.
acquireNoWait(m, len) ==
    IF len < m.cap THEN [ok |-> TRUE, len |-> len + 1, status |-> 0]
    ELSE [ok |-> FALSE, len |-> len, status |-> StatusTooManyRequests]

\* acquire, max_inflight_wait > 0: the cases of the blocking select that are
\* ready, given the channel, the timer and the request context.
acquireReady(m, len, timer, ctx) ==
    (IF len < m.cap THEN {"send"} ELSE {})
    \cup (IF timer THEN {"timer"} ELSE {})
    \cup (IF ctx THEN {"ctx"} ELSE {})

\* Variant of acquireCase that answers an expired wait as a full gate
\* without wait is answered.
acquireCaseTimer429(len, case) ==
    IF case = "send" THEN [ok |-> TRUE, len |-> len + 1, status |-> 0]
    ELSE IF case = "timer"
         THEN [ok |-> FALSE, len |-> len, status |-> StatusTooManyRequests]
    ELSE [ok |-> FALSE, len |-> len, status |-> StatusRequestTimeout]

\* Variant of acquireCase with the statuses of the timer and the context swapped.
acquireCaseSwapped(len, case) ==
    IF case = "send" THEN [ok |-> TRUE, len |-> len + 1, status |-> 0]
    ELSE IF case = "timer"
         THEN [ok |-> FALSE, len |-> len, status |-> StatusRequestTimeout]
    ELSE [ok |-> FALSE, len |-> len, status |-> StatusServiceUnavailable]

\* acquire, max_inflight_wait > 0: the outcome of the case the select takes.
acquireCase(len, case) ==
    IF case = "send" THEN [ok |-> TRUE, len |-> len + 1, status |-> 0]
    ELSE IF case = "timer"
         THEN [ok |-> FALSE, len |-> len, status |-> StatusServiceUnavailable]
    ELSE [ok |-> FALSE, len |-> len, status |-> StatusRequestTimeout]

\* Variant of release that leaves the channel as it is.
releaseNothing(m, len) == len

\* release: a non-blocking receive from the channel.
release(m, len) ==
    IF m.cap = 0 THEN len
    ELSE IF len > 0 THEN len - 1
    ELSE len

Unmatched == <<"u", "n", "m", "a", "t", "c", "h", "e", "d">>

\* A labelling that reports a route miss under the request path.
routeMetricLabelPath(r, path) ==
    IF r = NilRoute THEN path
    ELSE IF r.name # <<>> THEN r.name
    ELSE IF r.publicPrefix = <<>> THEN Slash
    ELSE r.publicPrefix

routeMetricLabel(r, path) ==
    IF r = NilRoute THEN Unmatched
    ELSE IF r.name # <<>> THEN r.name
    ELSE IF r.publicPrefix = <<>> THEN Slash
    ELSE r.publicPrefix

\* An error handler that answers every failure 502.
errorHandlerStatusAlways502(err) == StatusBadGateway

\* errorHandler: the status sent for a failed round-trip.
errorHandlerStatus(err) ==
    IF err = "canceled" THEN StatusRequestTimeout ELSE StatusBadGateway

\* errorHandler: the text sent for a failed round-trip.
errorHandlerBody(err) ==
    IF err = "canceled" THEN "request canceled" ELSE "upstream error"

\* acquire: the text sent with a rejection.
acquireBody(st) ==
    IF st = StatusRequestTimeout THEN "request canceled" ELSE "server busy"

\* serveInternal: the text sent by an internal endpoint.
internalBody(st, path) ==
    IF st = StatusServiceUnavailable THEN "busy"
    ELSE IF path = MetricsPath THEN "metrics"
    ELSE "ok"

\* recordRequest: the status observed (0, nothing written, counts as 200).
recordStatus(st) == IF st = 0 THEN StatusOK ELSE st

(***************************************************************************)
(* The request lifecycle of one Mirror (Mirror.ServeHTTP), NumReq          *)
(* concurrent requests.                                                    *)
(***************************************************************************)
NumReq == 3

Reqs == 1..NumReq

VARIABLES
    mirror,     \* the Mirror built by New
    gate,       \* len(m.maxInflight)
    gauge,      \* metrics.inflight
    pc,         \* where each request's ServeHTTP is
    req,        \* each inbound request
    out,        \* the outbound request the director produced
    status,     \* the status written to each client
    permit,     \* whether the request has sent to the channel and not yet received
    forwarded,  \* whether the request was handed to the transport
    timerFired, \* acquire's timer has fired
    ctxDone,    \* the request context is done (client went away)
    outcome,    \* how each request ended
    body,       \* the text written to each client
    observed,   \* metrics.observeRequest calls of each request: <<label, status>>
    errLabels,  \* metrics.observeUpstreamError calls of each request
    rewrites    \* the rewriteURL calls made so far: raw, pb and the result

gateVars == <<mirror, gate, gauge, pc, req, out, status, permit, forwarded,
              timerFired, ctxDone, outcome, body, observed, errLabels, rewrites>>

\* SpecRoute: one request taken through matchRoute and the director.
VARIABLES
    rtCfg,      \* the configured routes, in configuration order
    rtReq,      \* the inbound request
    rtPc,       \* "start", "matched", "nomatch", "sent", "back" ("off" outside SpecRoute)
    rtMatch,    \* the route matchRoute returned
    rtOut,      \* the outbound request the director left
    rtBack      \* the public path mapUpstreamPath gives for the outbound path

routeVars == <<rtCfg, rtReq, rtPc, rtMatch, rtOut, rtBack>>

\* SpecRewrite: one proxied request and the headers of its upstream response.
VARIABLES
    rwMirror,   \* the Mirror
    rwPc,       \* "start", "sent", "done", "panic" ("off" outside SpecRewrite)
    rwReq,      \* the inbound request
    rwBase,     \* the PublicBase the director put in the request context
    rwResp,     \* the upstream response, by its parts
    rwOut,      \* the Location and WWW-Authenticate headers the client gets
    rwFollow    \* the outbound request of the client's request for the
                \* rewritten Location

rewriteVars == <<rwMirror, rwPc, rwReq, rwBase, rwResp, rwOut, rwFollow>>

\* SpecFallback: one request through the transport.
VARIABLES
    fbCfg,      \* where the RuntimeTransport came from, and the
                \* first_fragment_len given there
    fbT,        \* the transport NewTransport built, with the metrics of New
    fbReq,      \* the request handed to RoundTrip
    fbPc,       \* "start", "loop", "done" ("off" outside SpecFallback)
    fbIdx,      \* i, the index of the fallback the loop is at
    fbPrev,     \* prevFrag
    fbLast,     \* resp, err of the last attempt
    fbAttempts, \* the attempts made, in order
    fbCounted,  \* the (from, to) increments of the fallback counter, in order
    fbCloneErr, \* cloneRequest returned an error
    fbRet       \* what RoundTrip returned

fallbackVars == <<fbCfg, fbT, fbReq, fbPc, fbIdx, fbPrev, fbLast, fbAttempts, fbCounted,
                  fbCloneErr, fbRet>>

\* SpecReload: the live state, one reload at a time, requests in between.
VARIABLES
    rlCheck,    \* the -check-upstreams flag
    rlCurrent,  \* dynamicHandler.current, the live ActiveState
    rlMade,     \* how many ActiveStates were created so far
    rlPc,       \* reloadConfig: "idle", "built", "stored"; "down" once main
                \* returned ("off" outside SpecReload)
    rlNext,     \* next, the state reloadConfig built
    rlPrev,     \* prev, the state reloadConfig loaded before the Store
    rlClosed,   \* the transports asked to close their idle connections
    rlLog,      \* what main logged for each reload
    rlServed,   \* the requests: position, loaded state, parts that served it
    rlMain      \* main: its runtime, the http.Server it built, the shutdown made

reloadVars == <<rlCheck, rlCurrent, rlMade, rlPc, rlNext, rlPrev, rlClosed, rlLog,
                rlServed, rlMain>>

\* SpecSupervisor: the supervisor of rmirrord, its runners and their children.
VARIABLES
    svMap,      \* s.runners: the runner recorded under each instance name (0: none)
    svRunners,  \* the runners made so far: spec, place of the loop, stopping,
                \* cmd, the children started and the state of the last one
    svApply,    \* main: the Apply or StopAll call it is in, with its lists
    svStop,     \* the runner.stop call in progress: runner, place, local cmd
    svReturned, \* the runners whose stop has returned
    svDisabled  \* the names with disabled: true in the configuration last applied

supervisorVars == <<svMap, svRunners, svApply, svStop, svReturned, svDisabled>>

\* SpecDial: the IPv6 decision of the process and one DialTLSContext call
\* at a time.
VARIABLES
    dlV6,        \* ip.IsIPv6Available, whether ipv6Once has run, the probes made
    dlFrag,      \* d.firstFragmentLen
    dlTransports,\* the NewTransport calls made so far
    dlDials,     \* the DialTLSContext calls made so far
    dlPc,        \* "idle", "dial", "handshake", "redial", "plain", "returned"
                 \* ("off" outside SpecDial)
    dlAddrs,     \* addrs, as resolveHost returned them (by family)
    dlIdx,       \* the address the loop is at
    dlConns,     \* the connections the call opened: TRUE while open
    dlTried,     \* the dials and handshakes the call made, in order
    dlLastErr,   \* lastErr
    dlRet        \* what the call returned: the connection (0: nil) and the error

dialVars == <<dlV6, dlFrag, dlTransports, dlDials, dlPc, dlAddrs, dlIdx, dlConns, dlTried,
              dlLastErr, dlRet>>

\* SpecStream: one proxied response from RoundTrip to the client.
VARIABLES
    stBase,      \* the PublicBase in the context of the request
    stResp,      \* the response of the upstream
    stLen,       \* "known" or "unknown": its ContentLength
    stPc,        \* "got", "modified", "body", "end", "panic" ("off" outside SpecStream)
    stHdr,       \* res.Header: Location and WWW-Authenticate
    stModified,  \* modifyResponse has returned
    stBuf,       \* what was written to the ResponseWriter and the server holds back
    stClient,    \* what the client has received, in order
    stRecv,      \* the body bytes received from the upstream
    stPending    \* flushPending of the copy

streamVars == <<stBase, stResp, stLen, stPc, stHdr, stModified, stBuf, stClient, stRecv,
                stPending>>

\* SpecSignal: the reload signals of rmirror.
VARIABLES
    sgPc,        \* the reload goroutine: "recv", "load", "build" ("off" outside SpecSignal)
    sgChan,      \* the signals in the reload channel
    sgSent,      \* the SIGHUPs delivered so far
    sgUnread,    \* the SIGHUPs after which the file has not been read yet
    sgFile,      \* the version of the configuration file
    sgRead,      \* the version the running attempt has read
    sgRunning,   \* the reload attempts under way
    sgLog,       \* the attempts that ended: version read, and whether it was stored
    sgLive       \* the version of the state handler.current holds

signalVars == <<sgPc, sgChan, sgSent, sgUnread, sgFile, sgRead, sgRunning, sgLog, sgLive>>

\* The variables the actions of Spec leave alone.
gateOthers == <<routeVars, rewriteVars, fallbackVars, reloadVars, supervisorVars, dialVars, streamVars,
    signalVars>>

\* The variables the actions of SpecRoute leave alone.
routeOthers == <<gateVars, rewriteVars, fallbackVars, reloadVars, supervisorVars, dialVars, streamVars,
    signalVars>>

\* The variables the actions of SpecRewrite leave alone.
rewriteOthers == <<gateVars, routeVars, fallbackVars, reloadVars, supervisorVars, dialVars, streamVars,
    signalVars>>

\* The variables the actions of SpecFallback leave alone.
fallbackOthers == <<gateVars, routeVars, rewriteVars, reloadVars, supervisorVars, dialVars, streamVars,
    signalVars>>

\* The variables the actions of SpecReload leave alone.
reloadOthers == <<gateVars, routeVars, rewriteVars, fallbackVars, supervisorVars, dialVars, streamVars,
    signalVars>>

\* The variables the actions of SpecSupervisor leave alone.
supervisorOthers == <<gateVars, routeVars, rewriteVars, fallbackVars, reloadVars, dialVars, streamVars,
    signalVars>>

\* The variables the actions of SpecDial leave alone.
dialOthers == <<gateVars, routeVars, rewriteVars, fallbackVars, reloadVars, supervisorVars,
                streamVars, signalVars>>

\* The variables the actions of SpecStream leave alone.
streamOthers == <<gateVars, routeVars, rewriteVars, fallbackVars, reloadVars, supervisorVars,
                  dialVars, signalVars>>

\* The variables the actions of SpecSignal leave alone.
signalOthers == <<gateVars, routeVars, rewriteVars, fallbackVars, reloadVars, supervisorVars,
                  dialVars, streamVars>>

vars == <<gateVars, routeVars, rewriteVars, fallbackVars, reloadVars, supervisorVars,
          dialVars, streamVars, signalVars>>

NoRequest == [Path |-> <<>>, RawPath |-> <<>>, RawQuery |-> <<>>, Host |-> <<>>,
              XForwardedProto |-> <<>>, TLS |-> FALSE]

NoOut == [Scheme |-> <<>>, URLHost |-> <<>>, Path |-> <<>>, RawPath |-> <<>>,
          RawQuery |-> <<>>, Host |-> <<>>, ctxBase |-> NilBase, ctxRoute |-> NilRoute]

GetRequest(path) ==
    [Path |-> path, RawPath |-> <<>>, RawQuery |-> <<>>, Host |-> <<"p", "u", "b">>,
     XForwardedProto |-> <<>>, TLS |-> FALSE]

\* The requests clients send in Spec.
GateRequests ==
    {GetRequest(HealthzPath), GetRequest(ReadyzPath), GetRequest(MetricsPath),
     GetRequest(<<"/", "a", "p", "i", "/", "x">>),
     GetRequest(<<"/", "v", "1", "/", "x">>)}

RouteApi == [Name |-> <<"a", "p", "i">>, PublicPrefix |-> <<"/", "a", "p", "i">>,
             Upstream |-> <<"h", "t", "t", "p", "s", ":", "/", "/", "u", "/", "v", "1">>,
             PreserveHost |-> FALSE]

RouteRoot == [Name |-> <<"r", "o", "o", "t">>, PublicPrefix |-> <<"/">>,
              Upstream |-> <<"h", "t", "t", "p", "s", ":", "/", "/", "r">>,
              PreserveHost |-> FALSE]

\* The limits of the configurations Spec starts from: <<max_inflight, wait>>.
GateLimits == {<<0, 0>>, <<1, 0>>, <<2, 0>>, <<1, 1>>, <<2, 1>>}

\* Route api under every limit, and a route of prefix / (it covers the paths
\* of the internal endpoints) under a limit of one without wait.
GateConfigs ==
    {[Routes |-> rs, PublicBase |-> NilBase, MaxInflight |-> l[1], MaxInflightWait |-> l[2]] :
        rs \in {<<RouteApi>>}, l \in GateLimits}
    \cup {[Routes |-> <<RouteRoot>>, PublicBase |-> NilBase, MaxInflight |-> 1,
           MaxInflightWait |-> 0]}

\* The Location headers upstream responses carry in Spec: none, or a URL
\* under the upstream of route api.
GateLocations ==
    {<<>>, <<"h", "t", "t", "p", "s", ":", "/", "/", "u", "/", "v", "1", "/", "d">>}

\* The Mirror a handler reaches through its receiver: the fields New set,
\* and what the gate channel and the metrics hold at the moment.
liveMirror(m, len, inflight) ==
    [routes |-> m.routes, routesByUpstream |-> m.routesByUpstream,
     publicBase |-> m.publicBase, cap |-> m.cap, wait |-> m.wait,
     maxInflight |-> len, inflight |-> inflight]

InitGate ==
    /\ mirror \in {New(c) : c \in GateConfigs}
    /\ gate = 0
    /\ gauge = 0
    /\ pc = [i \in Reqs |-> "idle"]
    /\ req = [i \in Reqs |-> NoRequest]
    /\ out = [i \in Reqs |-> NoOut]
    /\ status = [i \in Reqs |-> 0]
    /\ permit = [i \in Reqs |-> FALSE]
    /\ forwarded = [i \in Reqs |-> FALSE]
    /\ timerFired = [i \in Reqs |-> FALSE]
    /\ ctxDone = [i \in Reqs |-> FALSE]
    /\ outcome = [i \in Reqs |-> "none"]
    /\ body = [i \in Reqs |-> ""]
    /\ observed = [i \in Reqs |-> <<>>]
    /\ errLabels = [i \in Reqs |-> <<>>]
    /\ rewrites = {}

\* ServeHTTP returns right after writing: the request is over.
Finished(i, st, how, msg) ==
    /\ pc' = [pc EXCEPT ![i] = "done"]
    /\ status' = [status EXCEPT ![i] = st]
    /\ outcome' = [outcome EXCEPT ![i] = how]
    /\ body' = [body EXCEPT ![i] = msg]
    /\ timerFired' = [timerFired EXCEPT ![i] = FALSE]
    /\ ctxDone' = [ctxDone EXCEPT ![i] = FALSE]

\* acquire returned true: inflight.Inc, the two defers are registered, and
\* route.proxy.ServeHTTP runs the director and blocks in the round-trip.
Admitted(i, rq, newLen) ==
    /\ gate' = newLen
    /\ gauge' = gauge + 1
    /\ permit' = [permit EXCEPT ![i] = (mirror.cap # 0)]
    /\ forwarded' = [forwarded EXCEPT ![i] = TRUE]
    /\ out' = [out EXCEPT ![i] =
                  director(mirror.publicBase, matchRoute(mirror.routes, rq.Path), rq)]
    /\ pc' = [pc EXCEPT ![i] = "upstream"]
    /\ timerFired' = [timerFired EXCEPT ![i] = FALSE]

\* The deferred calls of ServeHTTP: m.release(), then inflight.Dec().
Deferred(i) ==
    /\ gate' = release(mirror, gate)
    /\ permit' = [permit EXCEPT ![i] = FALSE]
    /\ gauge' = gauge - 1

\* recordRequest: one observeRequest call.
Record(i, label, st) ==
    observed' = [observed EXCEPT ![i] = Append(@, <<label, recordStatus(st)>>)]

\* Requests are numbered in the order in which they arrive.
NextToArrive(i) == pc[i] = "idle" /\ \A j \in 1..(i - 1) : pc[j] # "idle"

\* An internal endpoint: answered by serveInternal, nothing else happens.
ServeInternal(i, rq) ==
    /\ NextToArrive(i)
    /\ serveInternal(mirror, gate, rq.Path) # 0
    /\ req' = [req EXCEPT ![i] = rq]
    /\ Finished(i, serveInternal(mirror, gate, rq.Path), "internal",
                internalBody(serveInternal(mirror, gate, rq.Path), rq.Path))
    /\ UNCHANGED <<gateOthers, rewrites, mirror, gate, gauge, out, permit, forwarded, observed, errLabels>>

\* No route matches: 404, observed as "unmatched".
ServeNoRoute(i, rq) ==
    /\ NextToArrive(i)
    /\ serveInternal(mirror, gate, rq.Path) = 0
    /\ matchRoute(mirror.routes, rq.Path) = NilRoute
    /\ req' = [req EXCEPT ![i] = rq]
    /\ Finished(i, StatusNotFound, "nomatch", "no route matched")
    /\ Record(i, routeMetricLabel(NilRoute, rq.Path), StatusNotFound)
    /\ UNCHANGED <<gateOthers, rewrites, mirror, gate, gauge, out, permit, forwarded, errLabels>>

\* A routed request, no gate (max_inflight = 0): acquire returns true.
ServeNoGate(i, rq) ==
    /\ NextToArrive(i)
    /\ serveInternal(mirror, gate, rq.Path) = 0
    /\ matchRoute(mirror.routes, rq.Path) # NilRoute
    /\ mirror.cap = 0
    /\ req' = [req EXCEPT ![i] = rq]
    /\ Admitted(i, rq, gate)
    /\ UNCHANGED <<gateOthers, rewrites, mirror, status, ctxDone, outcome, body, observed, errLabels>>

\* A routed request, gate without wait: the non-blocking send succeeds.
ServeAcquire(i, rq) ==
    /\ NextToArrive(i)
    /\ serveInternal(mirror, gate, rq.Path) = 0
    /\ matchRoute(mirror.routes, rq.Path) # NilRoute
    /\ mirror.cap # 0 /\ mirror.wait <= 0
    /\ acquireNoWait(mirror, gate).ok
    /\ req' = [req EXCEPT ![i] = rq]
    /\ Admitted(i, rq, acquireNoWait(mirror, gate).len)
    /\ UNCHANGED <<gateOthers, rewrites, mirror, status, ctxDone, outcome, body, observed, errLabels>>

\* A routed request, gate without wait: the channel is full, 429.
ServeReject(i, rq) ==
    /\ NextToArrive(i)
    /\ serveInternal(mirror, gate, rq.Path) = 0
    /\ matchRoute(mirror.routes, rq.Path) # NilRoute
    /\ mirror.cap # 0 /\ mirror.wait <= 0
    /\ ~acquireNoWait(mirror, gate).ok
    /\ req' = [req EXCEPT ![i] = rq]
    /\ gate' = acquireNoWait(mirror, gate).len
    /\ Finished(i, acquireNoWait(mirror, gate).status, "rejected",
                acquireBody(acquireNoWait(mirror, gate).status))
    /\ Record(i, routeMetricLabel(matchRoute(mirror.routes, rq.Path), rq.Path),
              acquireNoWait(mirror, gate).status)
    /\ UNCHANGED <<gateOthers, rewrites, mirror, gauge, out, permit, forwarded, errLabels>>

\* A routed request, gate with wait: the timer is started and the request
\* blocks in the select.
ServeWait(i, rq) ==
    /\ NextToArrive(i)
    /\ serveInternal(mirror, gate, rq.Path) = 0
    /\ matchRoute(mirror.routes, rq.Path) # NilRoute
    /\ mirror.cap # 0 /\ mirror.wait > 0
    /\ req' = [req EXCEPT ![i] = rq]
    /\ pc' = [pc EXCEPT ![i] = "acquire"]
    /\ UNCHANGED <<gateOthers, rewrites, mirror, gate, gauge, out, status, permit, forwarded, timerFired,
                   ctxDone, outcome, body, observed, errLabels>>

\* The wait bound elapses.
TimerFire(i) ==
    /\ pc[i] = "acquire"
    /\ ~timerFired[i]
    /\ timerFired' = [timerFired EXCEPT ![i] = TRUE]
    /\ UNCHANGED <<gateOthers, rewrites, mirror, gate, gauge, pc, req, out, status, permit, forwarded,
                   ctxDone, outcome, body, observed, errLabels>>

\* The client goes away: the request context is done.
ClientCancel(i) ==
    /\ pc[i] \in {"acquire", "upstream", "stream"}
    /\ ~ctxDone[i]
    /\ ctxDone' = [ctxDone EXCEPT ![i] = TRUE]
    /\ UNCHANGED <<gateOthers, rewrites, mirror, gate, gauge, pc, req, out, status, permit, forwarded,
                   timerFired, outcome, body, observed, errLabels>>

\* The select takes the send: a permit was free.
WaitAcquire(i) ==
    /\ pc[i] = "acquire"
    /\ "send" \in acquireReady(mirror, gate, timerFired[i], ctxDone[i])
    /\ Admitted(i, req[i], acquireCase(gate, "send").len)
    /\ UNCHANGED <<gateOthers, rewrites, mirror, req, status, ctxDone, outcome, body, observed, errLabels>>

\* The select takes the timer (503) or the done context (408).
WaitReject(i, case) ==
    /\ pc[i] = "acquire"
    /\ case \in acquireReady(mirror, gate, timerFired[i], ctxDone[i])
    /\ ~acquireCase(gate, case).ok
    /\ gate' = acquireCase(gate, case).len
    /\ Finished(i, acquireCase(gate, case).status, "rejected",
                acquireBody(acquireCase(gate, case).status))
    /\ Record(i, routeMetricLabel(matchRoute(mirror.routes, req[i].Path), req[i].Path),
              acquireCase(gate, case).status)
    /\ UNCHANGED <<gateOthers, rewrites, mirror, gauge, req, out, permit, forwarded, errLabels>>

\* The transport returns a response: modifyResponse, the header is written
\* (status 200 here) and the body copy starts.
UpstreamResponse(i, loc) ==
    /\ pc[i] = "upstream"
    /\ pc' = [pc EXCEPT ![i] = "stream"]
    /\ status' = [status EXCEPT ![i] = StatusOK]
    /\ rewrites' = IF loc = <<>> \/ out[i].ctxBase.Host = <<>> \/ out[i].ctxBase.Scheme = <<>>
                   THEN rewrites
                   ELSE rewrites \cup
                        {[raw |-> loc, pb |-> out[i].ctxBase,
                          res |-> rewriteURL(liveMirror(mirror, gate, gauge), loc,
                                             out[i].ctxBase)]}
    /\ UNCHANGED <<gateOthers, mirror, gate, gauge, req, out, permit, forwarded, timerFired,
                   ctxDone, outcome, body, observed, errLabels>>

\* The transport fails (err = "canceled" needs a done context): errorHandler
\* labels the error by the path of the request it is handed, the outbound
\* one, then recordRequest and the deferred calls run.
UpstreamError(i, err) ==
    /\ pc[i] = "upstream"
    /\ err = "canceled" => ctxDone[i]
    /\ errLabels' = [errLabels EXCEPT ![i] =
                        Append(@, routeMetricLabel(matchRoute(mirror.routes, out[i].Path), out[i].Path))]
    /\ Finished(i, errorHandlerStatus(err), IF err = "canceled" THEN "canceled" ELSE "error",
                errorHandlerBody(err))
    /\ Record(i, routeMetricLabel(matchRoute(mirror.routes, req[i].Path), req[i].Path),
              errorHandlerStatus(err))
    /\ Deferred(i)
    /\ UNCHANGED <<gateOthers, rewrites, mirror, req, out, forwarded>>

\* The body copy ends: recordRequest, then the deferred calls.
StreamEnd(i) ==
    /\ pc[i] = "stream"
    /\ Finished(i, status[i], "ok", "upstream body")
    /\ Record(i, routeMetricLabel(matchRoute(mirror.routes, req[i].Path), req[i].Path), status[i])
    /\ Deferred(i)
    /\ UNCHANGED <<gateOthers, rewrites, mirror, req, out, forwarded, errLabels>>

\* The body copy fails (the client went away): the proxy panics with
\* ErrAbortHandler, recordRequest is skipped, the deferred calls run.
StreamAbort(i) ==
    /\ pc[i] = "stream"
    /\ ctxDone[i]
    /\ Finished(i, status[i], "aborted", "upstream bo")
    /\ Deferred(i)
    /\ UNCHANGED <<gateOthers, rewrites, mirror, req, out, forwarded, observed, errLabels>>

NextGate ==
    \/ \E i \in Reqs, rq \in GateRequests :
          \/ ServeInternal(i, rq)
          \/ ServeNoRoute(i, rq)
          \/ ServeNoGate(i, rq)
          \/ ServeAcquire(i, rq)
          \/ ServeReject(i, rq)
          \/ ServeWait(i, rq)
    \/ \E i \in Reqs :
          \/ TimerFire(i)
          \/ ClientCancel(i)
          \/ WaitAcquire(i)
          \/ \E case \in {"timer", "ctx"} : WaitReject(i, case)
          \/ \E loc \in GateLocations : UpstreamResponse(i, loc)
          \/ \E err \in {"canceled", "other"} : UpstreamError(i, err)
          \/ StreamEnd(i)
          \/ StreamAbort(i)

(***************************************************************************)
(* SpecRoute: route tables built from validated configurations, one        *)
(* request matched and rewritten for the outbound leg.                     *)
(***************************************************************************)
MaxRoutes == 3

RouteCandidates ==
    {RouteRoot,
     [Name |-> <<>>, PublicPrefix |-> <<>>, Upstream |-> <<"r">>, PreserveHost |-> TRUE],
     [Name |-> <<"a">>, PublicPrefix |-> <<"/", "a">>,
      Upstream |-> <<"h", "t", "t", "p", ":", "/", "/", "u", "/", "v", "1">>,
      PreserveHost |-> FALSE],
     [Name |-> <<>>, PublicPrefix |-> <<"a", "/">>,
      Upstream |-> <<"h", "t", "t", "p", "s", ":", "/", "/", "u", "/", "v", "1", "/">>,
      PreserveHost |-> TRUE],
     [Name |-> <<>>, PublicPrefix |-> <<"/", "a", "/", "b">>,
      Upstream |-> <<"h", "t", "t", "p", "s", ":", "/", "/", "c">>,
      PreserveHost |-> FALSE],
     [Name |-> <<"x">>, PublicPrefix |-> <<"/", "b", "/", ".", ".", "/", "a", "b">>,
      Upstream |-> <<"h", "t", "t", "p", "s", ":", "/", "/", "U", "/", "v", "1", "/", "x">>,
      PreserveHost |-> FALSE]}

\* Every route list Config.Runtime accepts, up to MaxRoutes candidates in any order.
RouteConfigs ==
    {c \in UNION {[1..n -> RouteCandidates] : n \in 1..MaxRoutes} : validateRoutes(c)}

RoutePaths ==
    {<<>>, <<"/">>, <<"/", "a">>, <<"/", "a", "/">>, <<"/", "a", "/", "b">>,
     <<"/", "a", "b">>, <<"/", "a", "/", "b", "/", "c">>, <<"/", "b">>,
     <<"/", "/", "a">>, <<"/", "a", "/", "/", "b">>, <<"*">>, <<"/", "a", "b", "c">>}

RouteRequests ==
    {[Path |-> p, RawPath |-> <<>>, RawQuery |-> q, Host |-> <<"c", "l", "i">>,
      XForwardedProto |-> <<>>, TLS |-> FALSE] :
        p \in RoutePaths, q \in {<<>>, <<"x", "=", "1">>}}
    \cup {[Path |-> <<"/", "a", "/", "b">>, RawPath |-> <<"/", "a", "%", "2", "F", "b">>,
           RawQuery |-> <<>>, Host |-> <<"c", "l", "i">>, XForwardedProto |-> <<>>,
           TLS |-> FALSE]}

InitRoute ==
    /\ rtCfg \in RouteConfigs
    /\ rtReq \in RouteRequests
    /\ rtPc = "start"
    /\ rtMatch = NilRoute
    /\ rtOut = NoOut
    /\ rtBack = <<>>

IdleRoute ==
    /\ rtCfg = <<>>
    /\ rtReq = NoRequest
    /\ rtPc = "off"
    /\ rtMatch = NilRoute
    /\ rtOut = NoOut
    /\ rtBack = <<>>

IdleGate ==
    /\ mirror = New([Routes |-> <<>>, PublicBase |-> NilBase, MaxInflight |-> 0,
                     MaxInflightWait |-> 0])
    /\ gate = 0
    /\ gauge = 0
    /\ pc = [i \in Reqs |-> "off"]
    /\ req = [i \in Reqs |-> NoRequest]
    /\ out = [i \in Reqs |-> NoOut]
    /\ status = [i \in Reqs |-> 0]
    /\ permit = [i \in Reqs |-> FALSE]
    /\ forwarded = [i \in Reqs |-> FALSE]
    /\ timerFired = [i \in Reqs |-> FALSE]
    /\ ctxDone = [i \in Reqs |-> FALSE]
    /\ outcome = [i \in Reqs |-> "none"]
    /\ body = [i \in Reqs |-> ""]
    /\ observed = [i \in Reqs |-> <<>>]
    /\ errLabels = [i \in Reqs |-> <<>>]
    /\ rewrites = {}

\* ServeHTTP's matchRoute on the table New built.
RouteMatch ==
    /\ rtPc = "start"
    /\ rtMatch' = matchRoute(buildRoutes(rtCfg), rtReq.Path)
    /\ rtPc' = IF matchRoute(buildRoutes(rtCfg), rtReq.Path) = NilRoute
               THEN "nomatch" ELSE "matched"
    /\ UNCHANGED <<routeOthers, rtCfg, rtReq, rtOut, rtBack>>

\* The matched route's proxy runs its director on the request.
RouteDirector ==
    /\ rtPc = "matched"
    /\ rtOut' = director(NilBase, rtMatch, rtReq)
    /\ rtPc' = "sent"
    /\ UNCHANGED <<routeOthers, rtCfg, rtReq, rtMatch, rtBack>>

\* The upstream redirects to the URL it was asked for: rewriteURL maps the
\* path back with the route's mapUpstreamPath.
RouteMapBack ==
    /\ rtPc = "sent"
    /\ rtBack' = mapUpstreamPath(rtMatch, rtOut.Path)
    /\ rtPc' = "back"
    /\ UNCHANGED <<routeOthers, rtCfg, rtReq, rtMatch, rtOut>>

NextRoute == RouteMatch \/ RouteDirector \/ RouteMapBack

(***************************************************************************)
(* SpecRewrite: a proxied request gets its PublicBase from the director,   *)
(* the upstream answers with a Location or a WWW-Authenticate header, and  *)
(* modifyResponse rewrites it.                                             *)
(***************************************************************************)
RewriteRoute(name, prefix, upstream) ==
    [Name |-> name, PublicPrefix |-> prefix, Upstream |-> upstream, PreserveHost |-> FALSE]

RouteBlob == RewriteRoute(<<"b">>, <<"/", "b">>, <<"h", "t", "t", "p", "s", ":", "/", "/", "b">>)

RouteAuth == RewriteRoute(<<"a">>, <<"/", "a">>, <<"h", "t", "t", "p", "s", ":", "/", "/", "u", "/", "v", "1">>)

RouteDeep == RewriteRoute(<<"x">>, <<"/", "x">>, <<"h", "t", "t", "p", "s", ":", "/", "/", "u", "/", "v", "1", "/", "x">>)

\* A second route to the upstream of RouteBlob.
RouteTwin == RewriteRoute(<<"m">>, <<"/", "m">>, <<"h", "t", "t", "p", "s", ":", "/", "/", "b", "/">>)

StaticBase == [Scheme |-> SchemeHTTPS, Host |-> <<"p", "u", "b">>]

RewriteConfigs ==
    {[Routes |-> rs, PublicBase |-> pb, MaxInflight |-> 0, MaxInflightWait |-> 0] :
        rs \in {<<RouteRoot, RouteBlob, RouteAuth, RouteDeep>>,
                <<RouteAuth, RouteTwin, RouteDeep, RouteBlob>>},
        pb \in {NilBase, StaticBase}}

\* Inbound requests: with and without Host, with and without X-Forwarded-Proto.
RewriteRequests ==
    {[Path |-> <<"/", "b", "/", "x">>, RawPath |-> <<>>, RawQuery |-> <<>>, Host |-> h,
      XForwardedProto |-> x, TLS |-> FALSE] :
        h \in {<<"m">>, <<>>}, x \in {<<>>, SchemeHTTPS, <<",">> \o SchemeHTTPS}}

\* An absolute URL, by its parts and as the text the upstream sends.
AbsURL(scheme, host, path, query) ==
    [abs |-> TRUE, Scheme |-> scheme, Host |-> host, Path |-> path, Query |-> query,
     Raw |-> scheme \o <<":", "/", "/">> \o host \o path
             \o (IF query = <<>> THEN <<>> ELSE <<"?">> \o query)]

\* A URL without scheme that names a host (//host/path): parseAbsoluteURL
\* accepts it, as it accepts every URL that has a scheme or a host.
NetURL(host, path) ==
    [abs |-> TRUE, Scheme |-> <<>>, Host |-> host, Path |-> path, Query |-> <<>>,
     Raw |-> <<"/", "/">> \o host \o path]

\* A reference with neither scheme nor host.
RelURL(raw) ==
    [abs |-> FALSE, Scheme |-> <<>>, Host |-> <<>>, Path |-> <<>>, Query |-> <<>>,
     Raw |-> raw]

LocationURLs ==
    {AbsURL(sc, h, pa, q) :
        sc \in {SchemeHTTPS, SchemeHTTP},
        h \in {<<"b">>, <<"B">>, <<"u">>, <<"r">>, <<"e">>},
        pa \in {<<>>, <<"/", "d">>, <<"/", "v", "1">>, <<"/", "v", "1", "/", "x", "/", "y">>,
                <<"/", "v", "1", "x">>},
        q \in {<<>>, <<"q", "=", "1">>}}
    \cup {RelURL(<<"/", "r", "e", "l">>), NetURL(<<"b">>, <<"/", "d">>),
          NetURL(<<"e">>, <<"/", "d">>),
          AbsURL(SchemeHTTPS, <<"r">>, <<"/", "a", "/", "d">>, <<>>)}

RealmURLs ==
    {AbsURL(SchemeHTTPS, <<"b">>, <<"/", "t">>, <<>>),
     AbsURL(SchemeHTTPS, <<"u">>, <<"/", "v", "1", "/", "x", "/", "k">>, <<>>),
     AbsURL(SchemeHTTPS, <<"e">>, <<"/", "t">>, <<>>),
     RelURL(<<"/", "r", "e", "l">>)}

\* A piece of a WWW-Authenticate value: text with no realm URL in it.
TextPiece(text) ==
    [realm |-> FALSE, text |-> text, key |-> <<>>, quoted |-> FALSE, pad |-> <<>>,
     url |-> RelURL(<<>>)]

\* A piece of a WWW-Authenticate value: a realm parameter; the unquoted
\* form may have white space (pad) on both sides of the URL.
RealmPiece(key, quoted, pad, url) ==
    [realm |-> TRUE, text |-> <<>>, key |-> key, quoted |-> quoted, pad |-> pad,
     url |-> url]

PieceText(p) ==
    IF ~p.realm THEN p.text
    ELSE IF p.quoted THEN p.key \o Quote \o p.url.Raw \o Quote
    ELSE p.key \o p.pad \o p.url.Raw \o p.pad

RECURSIVE ValueText(_)
ValueText(pieces) ==
    IF pieces = <<>> THEN <<>> ELSE PieceText(Head(pieces)) \o ValueText(Tail(pieces))

AuthLeads ==
    {<<>>, <<"B", " ">>, KelvinSign \o <<" ">>, <<"xE9", " ">>,
     <<"B", " ", "t", "=", "\"", "xE9", "xE9", "xE9", "\"", " ">>}

AuthRealms ==
    {RealmPiece(k, qd[1], qd[2], u) :
        k \in {RealmKey, <<"R", "E", "A", "L", "M", "=">>},
        qd \in {<<TRUE, <<>>>>, <<FALSE, <<>>>>, <<FALSE, <<" ">>>>},
        u \in RealmURLs}

AuthTails ==
    {<<>>,
     <<TextPiece(<<",", "s", "=", "\"", "x", "\"">>)>>,
     <<TextPiece(<<",">>),
       RealmPiece(RealmKey, TRUE, <<>>, AbsURL(SchemeHTTPS, <<"u">>, <<"/", "v", "1", "/", "k">>, <<>>))>>}

\* The most WWW-Authenticate values of one response.
MaxValues == 3

BlobRealm == AbsURL(SchemeHTTPS, <<"b">>, <<"/", "t">>, <<>>)

\* The values of a challenge with several WWW-Authenticate values: without
\* realm=, with realm= at the end, with a quote that is not closed, with a
\* URL that matches no route, with a URL that matches one (quoted and
\* not), and with a byte above 0x7F.
AuthValues ==
    {<<TextPiece(<<"B", "a", "s", "i", "c">>)>>,
     <<TextPiece(<<"B", " ">> \o RealmKey)>>,
     <<TextPiece(<<"B", " ">> \o RealmKey \o Quote \o BlobRealm.Raw)>>,
     <<TextPiece(<<"B", " ">>),
       RealmPiece(RealmKey, TRUE, <<>>, AbsURL(SchemeHTTPS, <<"e">>, <<"/", "t">>, <<>>))>>,
     <<TextPiece(<<"B", " ">>), RealmPiece(RealmKey, TRUE, <<>>, BlobRealm)>>,
     <<RealmPiece(RealmKey, FALSE, <<>>,
                  AbsURL(SchemeHTTPS, <<"u">>, <<"/", "v", "1", "/", "x", "/", "k">>, <<>>)),
       TextPiece(<<",", "s", "=", "\"", "x", "\"">>)>>,
     <<TextPiece(<<"xE9", " ">> \o RealmKey)>>}

\* The upstream responses: a redirect with a Location, a challenge with one
\* WWW-Authenticate value, or a challenge with several (pieces is the first
\* value, more the values after it).
RewriteResponses ==
    {[kind |-> "loc", url |-> u, pieces |-> <<>>, more |-> <<>>] : u \in LocationURLs}
    \cup {[kind |-> "auth", url |-> RelURL(<<>>),
           pieces |-> <<TextPiece(l), r>> \o t, more |-> <<>>] :
             l \in AuthLeads, r \in AuthRealms, t \in AuthTails}
    \cup {[kind |-> "multi", url |-> RelURL(<<>>), pieces |-> v, more |-> vs] :
             v \in AuthValues,
             vs \in UNION {[1..n -> AuthValues] : n \in 1..(MaxValues - 1)}}

\* The two headers of an upstream response.
ResponseHeaders(resp) ==
    [Location |-> IF resp.kind = "loc" THEN resp.url.Raw ELSE <<>>,
     Auth     |-> IF resp.kind \in {"auth", "multi"}
                  THEN <<ValueText(resp.pieces)>>
                       \o [i \in 1..Len(resp.more) |-> ValueText(resp.more[i])]
                  ELSE <<>>]

NoResponse == [kind |-> "none", url |-> RelURL(<<>>), pieces |-> <<>>, more |-> <<>>]

NoHeaders == [Location |-> <<>>, Auth |-> <<>>]

InitRewrite ==
    /\ rwMirror \in {New(c) : c \in RewriteConfigs}
    /\ rwPc = "start"
    /\ rwReq = NoRequest
    /\ rwBase = NilBase
    /\ rwResp = NoResponse
    /\ rwOut = NoHeaders
    /\ rwFollow = NoOut

IdleRewrite ==
    /\ rwMirror = New([Routes |-> <<>>, PublicBase |-> NilBase, MaxInflight |-> 0,
                       MaxInflightWait |-> 0])
    /\ rwPc = "off"
    /\ rwReq = NoRequest
    /\ rwBase = NilBase
    /\ rwResp = NoResponse
    /\ rwOut = NoHeaders
    /\ rwFollow = NoOut

\* ServeHTTP matches the request and the director attaches the PublicBase.
RewriteRequest(rq) ==
    /\ rwPc = "start"
    /\ matchRoute(rwMirror.routes, rq.Path) # NilRoute
    /\ rwReq' = rq
    /\ rwBase' = director(rwMirror.publicBase, matchRoute(rwMirror.routes, rq.Path),
                          rq).ctxBase
    /\ rwPc' = "sent"
    /\ UNCHANGED <<rewriteOthers, rwMirror, rwResp, rwOut, rwFollow>>

\* The upstream response arrives and modifyResponse runs on it; when it
\* panics the client gets no response.
RewriteResponse(resp) ==
    /\ rwPc = "sent"
    /\ rwResp' = resp
    /\ rwPc' = IF modifyResponse(rwMirror, rwBase, ResponseHeaders(resp)).panic
               THEN "panic" ELSE "done"
    /\ rwOut' = [Location |->
                     modifyResponse(rwMirror, rwBase, ResponseHeaders(resp)).Location,
                 Auth |-> modifyResponse(rwMirror, rwBase, ResponseHeaders(resp)).Auth]
    /\ UNCHANGED <<rewriteOthers, rwMirror, rwReq, rwBase, rwFollow>>

\* The request a client makes for a URL of this proxy: the one it made
\* before, with the path and the query of the URL.
followRequest(rq, u) == [rq EXCEPT !.Path = u.Path, !.RawQuery = u.RawQuery]

\* The client follows the rewritten Location: ServeHTTP matches the path of
\* the public URL and the director makes the outbound request (no route:
\* 404, nothing goes out).
RewriteFollow ==
    /\ rwPc = "done"
    /\ rwResp.kind = "loc"
    /\ rwBase.Host # <<>>
    /\ rwBase.Scheme # <<>>
    /\ rewriteURL(rwMirror, ResponseHeaders(rwResp).Location, rwBase).ok
    /\ rwFollow' =
          IF matchRoute(rwMirror.routes, urlParse(rwOut.Location).Path) = NilRoute
          THEN NoOut
          ELSE director(rwMirror.publicBase,
                        matchRoute(rwMirror.routes, urlParse(rwOut.Location).Path),
                        followRequest(rwReq, urlParse(rwOut.Location)))
    /\ rwPc' = "followed"
    /\ UNCHANGED <<rewriteOthers, rwMirror, rwReq, rwBase, rwResp, rwOut>>

NextRewrite ==
    \/ \E rq \in RewriteRequests : RewriteRequest(rq)
    \/ \E resp \in RewriteResponses : RewriteResponse(resp)
    \/ RewriteFollow

(***************************************************************************)
(* SpecFallback: one request through the transport NewTransport built      *)
(* (fallbackRoundTripper.RoundTrip, one attempt per step).                 *)
(***************************************************************************)
MaxFragment == 3

\* The RuntimeTransport comes from a configuration file through
\* Config.Runtime (main, reloadConfig), or is made by the caller of
\* NewTransport.
FallbackSources == [via : {"Runtime", "caller"}, len : 0..MaxFragment]

\* The FirstFragmentLen of the RuntimeTransport NewTransport is called with.
runtimeTransportLen(src) ==
    IF src.via = "Runtime" THEN runtimeFirstFragmentLen(src.len) ELSE src.len

FallbackRequests ==
    [Method : {MethodGet, MethodHead, MethodOptions, MethodPost},
     Body : {"nil", "NoBody", "body"},
     ContentLength : {0, 4},
     GetBody : BOOLEAN]

NoFallbackRequest ==
    [Method |-> <<>>, Body |-> "nil", ContentLength |-> 0, GetBody |-> FALSE]

\* What one transport returns for one attempt: a response and no error, or
\* no response and an error.
NoResult == [resp |-> 0, err |-> NilErr]

AttemptErrors ==
    {Err("ECONNRESET", <<"w", "r", "a", "p", ":", " ">> \o ResetText),
     Err("EPIPE", <<"w", "r", "i", "t", "e", ":", " ", "b", "r", "o", "k", "e", "n",
                    " ", "p", "i", "p", "e">>),
     Err("EOF", <<"E", "O", "F">>),
     Err("", <<"r", "e", "a", "d", ":", " ", "C">> \o Tail(ResetText)),
     Err("", <<"i", "/", "o", " ", "t", "i", "m", "e", "o", "u", "t">>)}

AttemptResults ==
    {[resp |-> s, err |-> NilErr] : s \in {StatusOK, StatusBadGateway}}
        \cup {[resp |-> 0, err |-> e] : e \in AttemptErrors}

InitFallback ==
    /\ fbCfg \in FallbackSources
    /\ fbT = NewTransport(runtimeTransportLen(fbCfg))
    /\ fbReq \in FallbackRequests
    /\ fbPc = "start"
    /\ fbIdx = 0
    /\ fbPrev = 0
    /\ fbLast = NoResult
    /\ fbAttempts = <<>>
    /\ fbCounted = <<>>
    /\ fbCloneErr = FALSE
    /\ fbRet = NoResult

IdleFallback ==
    /\ fbCfg = [via |-> "caller", len |-> 0]
    /\ fbT = NewTransport(0)
    /\ fbReq = NoFallbackRequest
    /\ fbPc = "off"
    /\ fbIdx = 0
    /\ fbPrev = 0
    /\ fbLast = NoResult
    /\ fbAttempts = <<>>
    /\ fbCounted = <<>>
    /\ fbCloneErr = FALSE
    /\ fbRet = NoResult

\* RoundTrip returns res to its caller.
FallbackReturn(res) ==
    /\ fbPc' = "done"
    /\ fbRet' = res

\* One call of a transport's RoundTrip: k = 0 is the primary, k > 0 the
\* k-th fallback, frag its fragment length.
Attempt(k, frag, res) == [transport |-> k, frag |-> frag, res |-> res]

\* The primary attempt.  The plain transport (no fallback length) returns
\* its result; the chain returns it unless shouldRetry, and then enters the
\* loop over the fallbacks with prevFrag = primaryFragment.
FallbackPrimary(res) ==
    /\ fbPc = "start"
    /\ fbAttempts' = Append(fbAttempts, Attempt(0, fbT.primaryFragment, res))
    /\ fbLast' = res
    /\ IF fbT.chain /\ shouldRetry(fbReq, res.err)
       THEN /\ fbPc' = "loop"
            /\ fbPrev' = fbT.primaryFragment
            /\ UNCHANGED fbRet
       ELSE /\ FallbackReturn(res)
            /\ UNCHANGED fbPrev
    /\ UNCHANGED <<fallbackOthers, fbCfg, fbT, fbReq, fbIdx, fbCounted, fbCloneErr>>

\* One turn of the loop in which cloneRequest succeeds: the transition is
\* observed, the fallback is tried, and RoundTrip returns unless shouldRetry
\* and another fallback is left.
FallbackAttempt(res) ==
    /\ fbPc = "loop"
    /\ fbIdx < fbT.fallbacks
    /\ cloneRequest(fbReq, FALSE).ok
    /\ fbCounted' = observeFallback(fbT, fbCounted, fbPrev,
                                    nextFragment(fbT, fbIdx, fbPrev))
    /\ fbAttempts' = Append(fbAttempts,
                            Attempt(fbIdx + 1, nextFragment(fbT, fbIdx, fbPrev), res))
    /\ fbLast' = res
    /\ IF shouldRetry(cloneRequest(fbReq, FALSE).clone, res.err)
          /\ fbIdx + 1 < fbT.fallbacks
       THEN /\ fbIdx' = fbIdx + 1
            /\ fbPrev' = nextFragment(fbT, fbIdx, fbPrev)
            /\ UNCHANGED <<fbPc, fbRet>>
       ELSE /\ FallbackReturn(res)
            /\ UNCHANGED <<fbIdx, fbPrev>>
    /\ UNCHANGED <<fallbackOthers, fbCfg, fbT, fbReq, fbCloneErr>>

\* One turn of the loop in which GetBody fails: the transition is observed,
\* cloneRequest returns the error and RoundTrip returns the previous result.
FallbackCloneFail ==
    /\ fbPc = "loop"
    /\ fbIdx < fbT.fallbacks
    /\ ~cloneRequest(fbReq, TRUE).ok
    /\ fbCounted' = observeFallback(fbT, fbCounted, fbPrev,
                                    nextFragment(fbT, fbIdx, fbPrev))
    /\ fbCloneErr' = TRUE
    /\ FallbackReturn(fbLast)
    /\ UNCHANGED <<fallbackOthers, fbCfg, fbT, fbReq, fbIdx, fbPrev, fbLast, fbAttempts>>

NextFallback ==
    \/ \E res \in AttemptResults : FallbackPrimary(res)
    \/ \E res \in AttemptResults : FallbackAttempt(res)
    \/ FallbackCloneFail

(***************************************************************************)
(* SpecReload: the live ActiveState behind the dynamicHandler, reloads on  *)
(* SIGHUP (reloadConfig under reloadMu) and requests served meanwhile      *)
(* (cmd/rmirror main).                                                     *)
(***************************************************************************)
MaxReloads == 2

MaxServed == 2

ReloadReqs == 1..MaxServed

\* The settings of a configuration that main gives to the http.Server:
\* listen address, timeouts (seconds), TLS certificate of the listener.
ServerSettings(listen, readHeader, idle, shutdown, tls) ==
    [Listen |-> listen, ReadHeaderTimeout |-> readHeader, IdleTimeout |-> idle,
     ShutdownTimeout |-> shutdown, TLS |-> tls]

ListenA == ServerSettings("127.0.0.1:5000", 10, 60, 5, "none")

ListenB == ServerSettings("0.0.0.0:8443", 2, 30, 1, "cert.pem")

\* max_inflight of every configuration file of SpecReload (no wait).
ReloadMaxInflight == 1

\* What LoadConfig finds at the config path: an unreadable file, or a
\* configuration with its routes, its first_fragment_len and its server
\* settings.
ConfigFile(readable, routes, frag, server) ==
    [readable |-> readable,
     cfg |-> [Routes |-> routes, PublicBase |-> NilBase, MaxInflight |-> ReloadMaxInflight,
              MaxInflightWait |-> 0, Server |-> server],
     frag |-> frag]

FileApi == ConfigFile(TRUE, <<RouteApi>>, 3, ListenA)

FileRoot == ConfigFile(TRUE, <<RouteRoot>>, 0, ListenB)

FileUnreadable == ConfigFile(FALSE, <<>>, 0, ListenA)

FileNoRoutes == ConfigFile(TRUE, <<>>, 3, ListenA)

FileTwice == ConfigFile(TRUE, <<RouteApi, RouteApi>>, 3, ListenB)

ConfigFiles == {FileApi, FileRoot, FileUnreadable, FileNoRoutes, FileTwice}

\* LoadConfig and Config.Runtime succeed.
runtimeOK(file) == file.readable /\ validateRoutes(file.cfg.Routes)

\* mirror.New succeeds: buildRoutes parses every upstream.
newOK(file) ==
    \A k \in 1..Len(file.cfg.Routes) : parseUpstream(file.cfg.Routes[k].Upstream).ok

\* &activeState{runtime, transport, handler}: id tells the states created
\* apart, the transport and the Mirror behind the handler are its own.
activeState(id, file) ==
    [id        |-> id,
     runtime   |-> file.cfg,
     transport |-> [id |-> id, t |-> NewTransport(runtimeFirstFragmentLen(file.frag))],
     handler   |-> [id |-> id, m |-> New(file.cfg)]]

NoState ==
    [id |-> 0, runtime |-> FileNoRoutes.cfg,
     transport |-> [id |-> 0, t |-> NewTransport(0)],
     handler |-> [id |-> 0, m |-> New(FileNoRoutes.cfg)]]

\* A request in SpecReload: where it is, the state it loaded on entry, the
\* parts that served it so far and the status it got.
NoServed == [pc |-> "idle", state |-> NoState, by |-> <<>>, status |-> 0]

ReloadPaths == {<<"/", "a", "p", "i", "/", "x">>, <<"/", "v", "1", "/", "x">>}

\* main: srv := &http.Server{Addr: runtime.Listen, ...} and the certificate
\* ListenAndServeTLS is called with; no shutdown made yet.
mainOf(runtime) ==
    [runtime  |-> runtime,
     srv      |-> [Addr |-> runtime.Server.Listen,
                   ReadHeaderTimeout |-> runtime.Server.ReadHeaderTimeout,
                   IdleTimeout |-> runtime.Server.IdleTimeout],
     tls      |-> runtime.Server.TLS,
     shutdown |-> 0]

NoMain == mainOf(FileNoRoutes.cfg)

InitReload ==
    /\ rlCheck \in BOOLEAN
    /\ rlCurrent \in {activeState(1, FileApi), activeState(1, FileRoot)}
    /\ rlMain = mainOf(rlCurrent.runtime)
    /\ rlMade = 1
    /\ rlPc = "idle"
    /\ rlNext = NoState
    /\ rlPrev = NoState
    /\ rlClosed = {}
    /\ rlLog = <<>>
    /\ rlServed = [i \in ReloadReqs |-> NoServed]

IdleReload ==
    /\ rlCheck = FALSE
    /\ rlCurrent = NoState
    /\ rlMade = 0
    /\ rlPc = "off"
    /\ rlNext = NoState
    /\ rlPrev = NoState
    /\ rlClosed = {}
    /\ rlLog = <<>>
    /\ rlServed = [i \in ReloadReqs |-> NoServed]
    /\ rlMain = NoMain

\* reloadConfig returned an error: main logs it; the handler was not touched.
ReloadFailed(why) ==
    /\ rlLog' = Append(rlLog, <<"reload failed", why>>)
    /\ UNCHANGED <<reloadOthers, rlCheck, rlCurrent, rlMade, rlPc, rlNext, rlPrev,
                   rlClosed, rlServed, rlMain>>

\* A SIGHUP is taken from the channel and LoadConfig fails.
ReloadLoadFail(file) ==
    /\ rlPc = "idle"
    /\ Len(rlLog) < MaxReloads
    /\ ~file.readable
    /\ ReloadFailed("load")

\* Config.Runtime rejects the configuration.
ReloadInvalid(file) ==
    /\ rlPc = "idle"
    /\ Len(rlLog) < MaxReloads
    /\ file.readable
    /\ ~runtimeOK(file)
    /\ ReloadFailed("runtime")

\* A variant that publishes the new state before the upstream checks.
ReloadCheckFailStored(file) ==
    /\ rlPc = "idle"
    /\ Len(rlLog) < MaxReloads
    /\ runtimeOK(file)
    /\ rlCheck
    /\ rlCurrent' = activeState(rlMade + 1, file)
    /\ rlMade' = rlMade + 1
    /\ rlLog' = Append(rlLog, <<"reload failed", "check">>)
    /\ UNCHANGED <<reloadOthers, rlCheck, rlPc, rlNext, rlPrev, rlClosed, rlServed, rlMain>>

\* The configuration is valid, the transport is built and the upstream
\* checks (enabled by -check-upstreams) fail.
ReloadCheckFail(file) ==
    /\ rlPc = "idle"
    /\ Len(rlLog) < MaxReloads
    /\ runtimeOK(file)
    /\ rlCheck
    /\ ReloadFailed("check")

\* The configuration is valid and the upstream checks, if any, pass:
\* mirror.New builds the proxy and the next state is ready.
ReloadBuild(file) ==
    /\ rlPc = "idle"
    /\ Len(rlLog) < MaxReloads
    /\ runtimeOK(file)
    /\ IF newOK(file)
       THEN /\ rlNext' = activeState(rlMade + 1, file)
            /\ rlMade' = rlMade + 1
            /\ rlPc' = "built"
            /\ UNCHANGED rlLog
       ELSE /\ rlLog' = Append(rlLog, <<"reload failed", "new">>)
            /\ UNCHANGED <<rlNext, rlMade, rlPc>>
    /\ UNCHANGED <<reloadOthers, rlCheck, rlCurrent, rlPrev, rlClosed, rlServed, rlMain>>

\* A variant that also moves the server to the listen address of the
\* reloaded configuration.
ReloadStoreRebind ==
    /\ rlPc = "built"
    /\ rlPrev' = rlCurrent
    /\ rlCurrent' = rlNext
    /\ rlPc' = "stored"
    /\ rlMain' = [rlMain EXCEPT !.srv.Addr = rlNext.runtime.Server.Listen]
    /\ UNCHANGED <<reloadOthers, rlCheck, rlMade, rlNext, rlClosed, rlLog, rlServed>>

\* prev := handler.current.Load(); handler.Store(next).
ReloadStore ==
    /\ rlPc = "built"
    /\ rlPrev' = rlCurrent
    /\ rlCurrent' = rlNext
    /\ rlPc' = "stored"
    /\ UNCHANGED <<reloadOthers, rlCheck, rlMade, rlNext, rlClosed, rlLog, rlServed, rlMain>>

\* prev.transport.CloseIdleConnections(), return nil: main logs the success.
ReloadCloseIdle ==
    /\ rlPc = "stored"
    /\ rlClosed' = rlClosed \cup {rlPrev.transport.id}
    /\ rlLog' = Append(rlLog, <<"reload succeeded", "">>)
    /\ rlPc' = "idle"
    /\ UNCHANGED <<reloadOthers, rlCheck, rlCurrent, rlMade, rlNext, rlPrev, rlServed, rlMain>>

\* dynamicHandler.ServeHTTP: the live state is loaded and its handler called.
ServedEnter(i) ==
    /\ rlPc # "down"
    /\ rlServed[i].pc = "idle"
    /\ \A j \in 1..(i - 1) : rlServed[j].pc # "idle"
    /\ rlServed' = [rlServed EXCEPT ![i] =
                       [pc |-> "entered", state |-> rlCurrent,
                        by |-> <<<<"handler", rlCurrent.handler.id>>>>, status |-> 0]]
    /\ UNCHANGED <<reloadOthers, rlCheck, rlCurrent, rlMade, rlPc, rlNext, rlPrev,
                   rlClosed, rlLog, rlMain>>

\* Mirror.ServeHTTP of the loaded state's handler: the route is matched in
\* its table; a miss is answered 404.
ServedRoute(i, path) ==
    /\ rlPc # "down"
    /\ rlServed[i].pc = "entered"
    /\ rlServed' = [rlServed EXCEPT ![i] =
          IF matchRoute(@.state.handler.m.routes, path) = NilRoute
          THEN [@ EXCEPT !.pc = "done", !.status = StatusNotFound,
                         !.by = Append(@, <<"routes", rlServed[i].state.handler.id>>)]
          ELSE [@ EXCEPT !.pc = "routed",
                         !.by = Append(@, <<"routes", rlServed[i].state.handler.id>>)]]
    /\ UNCHANGED <<reloadOthers, rlCheck, rlCurrent, rlMade, rlPc, rlNext, rlPrev,
                   rlClosed, rlLog, rlMain>>

\* A variant that looks the live state up again for the round-trip.
ServedForwardLive(i) ==
    /\ rlPc # "down"
    /\ rlServed[i].pc = "routed"
    /\ rlServed' = [rlServed EXCEPT ![i] =
          [@ EXCEPT !.pc = "upstream",
                    !.by = @ \o <<<<"gate", rlCurrent.handler.id>>,
                                  <<"transport", rlCurrent.transport.id>>>>]]
    /\ UNCHANGED <<reloadOthers, rlCheck, rlCurrent, rlMade, rlPc, rlNext, rlPrev,
                   rlClosed, rlLog, rlMain>>

\* len(m.maxInflight) of the Mirror of state id: the permits its requests
\* hold, from acquire until the deferred release.
handlerInflight(served, id) ==
    Cardinality({j \in ReloadReqs :
                    served[j].pc = "upstream" /\ served[j].state.handler.id = id})

\* The request asks the gate of that Mirror for a permit: with one it goes
\* upstream on the transport the Mirror was built with, without it is
\* answered 429.
ServedForward(i) ==
    /\ rlPc # "down"
    /\ rlServed[i].pc = "routed"
    /\ rlServed' = [rlServed EXCEPT ![i] =
          IF acquireNoWait(@.state.handler.m,
                           handlerInflight(rlServed, @.state.handler.id)).ok
          THEN [@ EXCEPT !.pc = "upstream",
                         !.by = @ \o <<<<"gate", rlServed[i].state.handler.id>>,
                                       <<"transport", rlServed[i].state.transport.id>>>>]
          ELSE [@ EXCEPT !.pc = "done", !.status = StatusTooManyRequests,
                         !.by = Append(@, <<"gate", rlServed[i].state.handler.id>>)]]
    /\ UNCHANGED <<reloadOthers, rlCheck, rlCurrent, rlMade, rlPc, rlNext, rlPrev,
                   rlClosed, rlLog, rlMain>>

\* The upstream answered and the response went to the client.
ServedDone(i) ==
    /\ rlPc # "down"
    /\ rlServed[i].pc = "upstream"
    /\ rlServed' = [rlServed EXCEPT ![i] = [@ EXCEPT !.pc = "done", !.status = StatusOK]]
    /\ UNCHANGED <<reloadOthers, rlCheck, rlCurrent, rlMade, rlPc, rlNext, rlPrev,
                   rlClosed, rlLog, rlMain>>

\* A terminate signal (or the server's error) ends main's select:
\* srv.Shutdown runs under main's runtime.Timeouts.ShutdownTimeout and main
\* returns; the reload loop and the requests end with the process.
Terminate ==
    /\ rlPc \in {"idle", "built", "stored"}
    /\ rlMain' = [rlMain EXCEPT !.shutdown = rlMain.runtime.Server.ShutdownTimeout]
    /\ rlPc' = "down"
    /\ UNCHANGED <<reloadOthers, rlCheck, rlCurrent, rlMade, rlNext, rlPrev, rlClosed,
                   rlLog, rlServed>>

NextReload ==
    \/ \E file \in ConfigFiles : ReloadLoadFail(file)
    \/ \E file \in ConfigFiles : ReloadInvalid(file)
    \/ \E file \in ConfigFiles : ReloadCheckFail(file)
    \/ \E file \in ConfigFiles : ReloadBuild(file)
    \/ ReloadStore
    \/ ReloadCloseIdle
    \/ \E i \in ReloadReqs : ServedEnter(i)
    \/ \E i \in ReloadReqs, path \in ReloadPaths : ServedRoute(i, path)
    \/ \E i \in ReloadReqs : ServedForward(i)
    \/ \E i \in ReloadReqs : ServedDone(i)
    \/ Terminate

(***************************************************************************)
(* SpecSupervisor: rmirrord. supervisor.Apply and StopAll called by main,  *)
(* the loop of each runner, and runner.stop.                               *)
(***************************************************************************)
MaxRunners == 3

MaxApplies == 2

MaxFaults == 1

RunnerIds == 1..MaxRunners

InstanceNames == {"a", "b"}

\* An instanceSpec: version stands for the fields equal compares besides the
\* name and the restart policy (config path, command, args, env, ...).
InstanceSpec(name, version, restart) ==
    [name |-> name, version |-> version, restart |-> restart]

NoSpec == InstanceSpec("", 0, FALSE)

\* An InstanceConfig of the daemon configuration file, with the same
\* abbreviation.
InstanceConfig(name, version, restart, disabled) ==
    [name |-> name, version |-> version, restart |-> restart, disabled |-> disabled]

\* The instances of the daemon configuration files main loads.
DaemonConfigFiles ==
    {{InstanceConfig("a", 1, TRUE, FALSE)},
     {InstanceConfig("a", 2, FALSE, FALSE)},
     {InstanceConfig("a", 1, TRUE, FALSE), InstanceConfig("b", 1, FALSE, FALSE)},
     {InstanceConfig("b", 1, FALSE, TRUE)}}

\* DaemonConfig.runtime: one instanceSpec for each instance of the file;
\* for one that is disabled only the check of its configuration path is
\* left out.
runtimeInstances(cfg) == {InstanceSpec(i.name, i.version, i.restart) : i \in cfg}

\* The instance lists of the daemon configurations main loads.
DaemonConfigs == {runtimeInstances(cfg) : cfg \in DaemonConfigFiles}

\* instanceSpec.equal.
specEqual(s, other) ==
    /\ s.name = other.name
    /\ s.version = other.version
    /\ s.restart = other.restart

\* newRunner followed by start: the loop is about to make its first check.
\* cmd is r.cmd (0 is nil, otherwise the number of the child it points to),
\* started the number of children started, child the state of the last one.
newRunner(spec) ==
    [spec |-> spec, pc |-> "top", stopping |-> FALSE, cmd |-> 0, started |-> 0,
     child |-> "none", faults |-> 0]

NoRunner ==
    [spec |-> NoSpec, pc |-> "none", stopping |-> FALSE, cmd |-> 0, started |-> 0,
     child |-> "none", faults |-> 0]

NoStop == [runner |-> 0, pc |-> "none", cmd |-> 0]

NoApply ==
    [pc |-> "idle", desired |-> {}, toStop |-> {}, toStart |-> [changed |-> {}, missing |-> {}],
     toReload |-> {}, restart |-> NoSpec, applied |-> 0, changed |-> FALSE]

\* Apply, first loop over s.runners: the names no longer desired, and the
\* names whose runner has another spec than the desired one.
applyRemoved(runners, desired) ==
    {n \in InstanceNames : runners[n] # 0 /\ \A s \in desired : s.name # n}

applyChanged(runners, rs, desired) ==
    {n \in InstanceNames :
        /\ runners[n] # 0
        /\ \E s \in desired : s.name = n /\ ~specEqual(rs[runners[n]].spec, s)}

\* s.runners after the first loop: removed and changed names are deleted.
applyDeleted(runners, rs, desired) ==
    [n \in InstanceNames |->
        IF n \in applyRemoved(runners, desired) \cup applyChanged(runners, rs, desired)
        THEN 0 ELSE runners[n]]

\* toStart: the specs appended by the first loop (changed runners), then
\* those appended by the second loop (desired names not in s.runners).
applyToStart(runners, rs, desired) ==
    [changed |-> {s \in desired : s.name \in applyChanged(runners, rs, desired)},
     missing |-> {s \in desired : applyDeleted(runners, rs, desired)[s.name] = 0}]

applyToStop(runners, rs, desired) ==
    {runners[n] : n \in applyRemoved(runners, desired)
                        \cup applyChanged(runners, rs, desired)}

applyToReload(runners, rs, desired) ==
    {applyDeleted(runners, rs, desired)[n] : n \in InstanceNames} \ {0}

\* The runners created so far.
RunnersMade == Cardinality({r \in RunnerIds : svRunners[r].pc # "none"})

InitSupervisor ==
    /\ svMap = [n \in InstanceNames |-> 0]
    /\ svRunners = [r \in RunnerIds |-> NoRunner]
    /\ svApply = NoApply
    /\ svStop = NoStop
    /\ svReturned = {}
    /\ svDisabled = {}

IdleSupervisor ==
    /\ svMap = [n \in InstanceNames |-> 0]
    /\ svRunners = [r \in RunnerIds |-> NoRunner]
    /\ svApply = [NoApply EXCEPT !.pc = "off"]
    /\ svStop = NoStop
    /\ svReturned = {}
    /\ svDisabled = {}

\* main calls Apply (at startup, then on SIGHUP): under the lock the map is
\* compared with the desired instances.
ApplyBegin(desired) ==
    /\ svApply.pc = "idle"
    /\ svApply.applied < MaxApplies
    /\ RunnersMade + Cardinality(applyToStart(svMap, svRunners, desired).changed)
          + Cardinality(applyToStart(svMap, svRunners, desired).missing)
          + Cardinality(applyToReload(svMap, svRunners, desired)) <= MaxRunners
    /\ svApply' = [svApply EXCEPT
          !.pc = "apply",
          !.desired = desired,
          !.toStop = applyToStop(svMap, svRunners, desired),
          !.toStart = applyToStart(svMap, svRunners, desired),
          !.toReload = applyToReload(svMap, svRunners, desired),
          !.changed = @ \/ applyChanged(svMap, svRunners, desired) # {}]
    /\ svMap' = applyDeleted(svMap, svRunners, desired)
    /\ UNCHANGED <<supervisorOthers, svRunners, svStop, svReturned>>

\* main loads the daemon configuration, takes its runtime and calls Apply
\* with it.
MainApply(cfg) ==
    /\ ApplyBegin(runtimeInstances(cfg))
    /\ svDisabled' = {i.name : i \in {c \in cfg : c.disabled}}

\* for _, runner := range toStop: runner.stop is called.
ApplyStop(r) ==
    /\ svApply.pc = "apply"
    /\ svStop.pc = "none"
    /\ r \in svApply.toStop
    /\ svApply' = [svApply EXCEPT !.toStop = @ \ {r}]
    /\ svStop' = [runner |-> r, pc |-> "begin", cmd |-> 0]
    /\ UNCHANGED <<supervisorOthers, svDisabled, svMap, svRunners, svReturned>>

\* for _, spec := range toStart: a runner is made and started, and put in
\* the map under the name.
ApplyStart(s) ==
    /\ svApply.pc = "apply"
    /\ svStop.pc = "none"
    /\ svApply.toStop = {}
    /\ svApply.restart = NoSpec
    /\ s \in (IF svApply.toStart.changed # {} THEN svApply.toStart.changed
              ELSE svApply.toStart.missing)
    /\ svRunners' = [svRunners EXCEPT ![RunnersMade + 1] = newRunner(s)]
    /\ svMap' = [svMap EXCEPT ![s.name] = RunnersMade + 1]
    /\ svApply' = [svApply EXCEPT !.toStart =
          IF @.changed # {} THEN [@ EXCEPT !.changed = @ \ {s}]
          ELSE [@ EXCEPT !.missing = @ \ {s}]]
    /\ UNCHANGED <<supervisorOthers, svDisabled, svStop, svReturned>>

\* for _, runner := range toReload: runner.reload signals the child, or
\* fails without one; then the runner is stopped, to be replaced.
ApplyReload(r) ==
    /\ svApply.pc = "apply"
    /\ svStop.pc = "none"
    /\ svApply.toStop = {}
    /\ svApply.toStart = NoApply.toStart
    /\ svApply.restart = NoSpec
    /\ r \in svApply.toReload
    /\ svApply' = [svApply EXCEPT
          !.toReload = @ \ {r},
          !.restart = IF svRunners[r].cmd = 0
                      THEN CHOOSE s \in svApply.desired : s.name = svRunners[r].spec.name
                      ELSE NoSpec]
    /\ svStop' = IF svRunners[r].cmd = 0 THEN [runner |-> r, pc |-> "begin", cmd |-> 0]
                 ELSE svStop
    /\ UNCHANGED <<supervisorOthers, svDisabled, svMap, svRunners, svReturned>>

\* The reload failed and the stop returned: the next runner is made,
\* started and put in the map.
ApplyRestart ==
    /\ svApply.pc = "apply"
    /\ svStop.pc = "none"
    /\ svApply.restart # NoSpec
    /\ svRunners' = [svRunners EXCEPT ![RunnersMade + 1] = newRunner(svApply.restart)]
    /\ svMap' = [svMap EXCEPT ![svApply.restart.name] = RunnersMade + 1]
    /\ svApply' = [svApply EXCEPT !.restart = NoSpec]
    /\ UNCHANGED <<supervisorOthers, svDisabled, svStop, svReturned>>

\* Apply returns nil.
ApplyEnd ==
    /\ svApply.pc = "apply"
    /\ svStop.pc = "none"
    /\ svApply.toStop = {}
    /\ svApply.toStart = NoApply.toStart
    /\ svApply.toReload = {}
    /\ svApply.restart = NoSpec
    /\ svApply' = [svApply EXCEPT !.pc = "idle", !.applied = @ + 1]
    /\ UNCHANGED <<supervisorOthers, svDisabled, svMap, svRunners, svStop, svReturned>>

\* main calls StopAll on a stop signal: the runners of the map are taken
\* and the map is emptied.
StopAllBegin ==
    /\ svApply.pc = "idle"
    /\ svApply.applied > 0
    /\ svApply' = [svApply EXCEPT !.pc = "stopall",
                                  !.toStop = {svMap[n] : n \in InstanceNames} \ {0}]
    /\ svMap' = [n \in InstanceNames |-> 0]
    /\ UNCHANGED <<supervisorOthers, svDisabled, svRunners, svStop, svReturned>>

\* for _, runner := range runners: runner.stop is called.
StopAllStop(r) ==
    /\ svApply.pc = "stopall"
    /\ svStop.pc = "none"
    /\ r \in svApply.toStop
    /\ svApply' = [svApply EXCEPT !.toStop = @ \ {r}]
    /\ svStop' = [runner |-> r, pc |-> "begin", cmd |-> 0]
    /\ UNCHANGED <<supervisorOthers, svDisabled, svMap, svRunners, svReturned>>

\* StopAll returns and main with it: the process ends.
StopAllEnd ==
    /\ svApply.pc = "stopall"
    /\ svStop.pc = "none"
    /\ svApply.toStop = {}
    /\ svApply' = [svApply EXCEPT !.pc = "down"]
    /\ UNCHANGED <<supervisorOthers, svDisabled, svMap, svRunners, svStop, svReturned>>

\* runner.loop, top of the for: if r.stopping.Load() return (the deferred
\* close(r.stopped) runs).
RunnerTop(r) ==
    /\ svApply.pc # "down"
    /\ svRunners[r].pc = "top"
    /\ svRunners' = [svRunners EXCEPT ![r].pc =
                        IF svRunners[r].stopping THEN "exited" ELSE "exec"]
    /\ UNCHANGED <<supervisorOthers, svDisabled, svMap, svApply, svStop, svReturned>>

\* cmd.Start: the child runs, or the start fails and the loop returns or
\* backs off.
RunnerStart(r, ok) ==
    /\ svApply.pc # "down"
    /\ svRunners[r].pc = "exec"
    /\ ~ok => svRunners[r].faults < MaxFaults
    /\ svRunners' = [svRunners EXCEPT ![r] =
          IF ok THEN [@ EXCEPT !.pc = "set", !.started = @ + 1, !.child = "up"]
          ELSE [@ EXCEPT !.pc = IF svRunners[r].spec.restart THEN "sleep" ELSE "exited",
                         !.faults = @ + 1]]
    /\ UNCHANGED <<supervisorOthers, svDisabled, svMap, svApply, svStop, svReturned>>

\* r.setCmd(cmd), then cmd.Wait blocks.
RunnerSetCmd(r) ==
    /\ svApply.pc # "down"
    /\ svRunners[r].pc = "set"
    /\ svRunners' = [svRunners EXCEPT ![r] = [@ EXCEPT !.pc = "wait", !.cmd = svRunners[r].started]]
    /\ UNCHANGED <<supervisorOthers, svDisabled, svMap, svApply, svStop, svReturned>>

\* cmd.Wait returns, the child is gone; r.clearCmd().
RunnerReap(r) ==
    /\ svApply.pc # "down"
    /\ svRunners[r].pc = "wait"
    /\ svRunners[r].child = "dead"
    /\ svRunners' = [svRunners EXCEPT ![r] = [@ EXCEPT !.pc = "check", !.cmd = 0]]
    /\ UNCHANGED <<supervisorOthers, svDisabled, svMap, svApply, svStop, svReturned>>

\* After the child: return when stopping, or when restart is not enabled;
\* otherwise back off.
RunnerCheck(r) ==
    /\ svApply.pc # "down"
    /\ svRunners[r].pc = "check"
    /\ svRunners' = [svRunners EXCEPT ![r].pc =
          IF svRunners[r].stopping THEN "exited"
          ELSE IF ~svRunners[r].spec.restart THEN "exited"
          ELSE "sleep"]
    /\ UNCHANGED <<supervisorOthers, svDisabled, svMap, svApply, svStop, svReturned>>

\* sleepBackoff returns (no delay, the timer, or stopCh closed) and the loop
\* goes round.
RunnerSleep(r) ==
    /\ svApply.pc # "down"
    /\ svRunners[r].pc = "sleep"
    /\ svRunners' = [svRunners EXCEPT ![r].pc = "top"]
    /\ UNCHANGED <<supervisorOthers, svDisabled, svMap, svApply, svStop, svReturned>>

\* The child process exits: of itself, or on the SIGTERM it was sent.
ChildExits(r) ==
    /\ svRunners[r].child \in {"up", "term"}
    /\ svRunners[r].child = "up" => svRunners[r].faults < MaxFaults
    /\ svRunners' = [svRunners EXCEPT ![r] =
          [@ EXCEPT !.child = "dead",
                    !.faults = IF svRunners[r].child = "up" THEN @ + 1 ELSE @]]
    /\ UNCHANGED <<supervisorOthers, svDisabled, svMap, svApply, svStop, svReturned>>

\* runner.stop: stopping.CompareAndSwap(false, true) and close(r.stopCh).
StopBegin ==
    /\ svStop.pc = "begin"
    /\ svRunners' = [svRunners EXCEPT ![svStop.runner].stopping = TRUE]
    /\ svStop' = [svStop EXCEPT !.pc = "signal"]
    /\ UNCHANGED <<supervisorOthers, svDisabled, svMap, svApply, svReturned>>

\* The process cmd points to, when it is the running child of the runner.
childOf(rn, cmd) == cmd # 0 /\ cmd = rn.started /\ rn.child \in {"up", "term"}

\* runner.stop: cmd := r.cmd under the lock; terminate(cmd.Process) when
\* there is one.
StopSignal ==
    /\ svStop.pc = "signal"
    /\ svStop' = [svStop EXCEPT !.pc = "select", !.cmd = svRunners[svStop.runner].cmd]
    /\ svRunners' = [svRunners EXCEPT ![svStop.runner].child =
          IF childOf(svRunners[svStop.runner], svRunners[svStop.runner].cmd) THEN "term"
          ELSE @]
    /\ UNCHANGED <<supervisorOthers, svDisabled, svMap, svApply, svReturned>>

\* runner.stop, case <-time.After(timeout): Kill when cmd was not nil, then
\* <-r.stopped.
StopTimeout ==
    /\ svStop.pc = "select"
    /\ svStop' = [svStop EXCEPT !.pc = "final"]
    /\ svRunners' = [svRunners EXCEPT ![svStop.runner].child =
          IF childOf(svRunners[svStop.runner], svStop.cmd) THEN "dead" ELSE @]
    /\ UNCHANGED <<supervisorOthers, svDisabled, svMap, svApply, svReturned>>

\* runner.stop returns: r.stopped is closed, the loop has returned.
StopReturn ==
    /\ svStop.pc \in {"select", "final"}
    /\ svRunners[svStop.runner].pc = "exited"
    /\ svReturned' = svReturned \cup {svStop.runner}
    /\ svStop' = NoStop
    /\ UNCHANGED <<supervisorOthers, svDisabled, svMap, svRunners, svApply>>

\* The steps of main, of the runner loops and of runner.stop.
SupervisorSteps ==
    \/ \E r \in RunnerIds : ApplyStop(r)
    \/ \E s \in UNION DaemonConfigs : ApplyStart(s)
    \/ \E r \in RunnerIds : ApplyReload(r)
    \/ ApplyRestart
    \/ ApplyEnd
    \/ \E r \in RunnerIds : StopAllStop(r)
    \/ StopAllEnd
    \/ \E r \in RunnerIds : RunnerTop(r)
    \/ \E r \in RunnerIds : RunnerStart(r, TRUE)
    \/ \E r \in RunnerIds : RunnerSetCmd(r)
    \/ \E r \in RunnerIds : RunnerReap(r)
    \/ \E r \in RunnerIds : RunnerCheck(r)
    \/ \E r \in RunnerIds : RunnerSleep(r)
    \/ StopBegin
    \/ StopSignal
    \/ StopTimeout
    \/ StopReturn

NextSupervisor ==
    \/ \E cfg \in DaemonConfigFiles : MainApply(cfg)
    \/ \E r \in RunnerIds : ApplyStop(r)
    \/ \E s \in UNION DaemonConfigs : ApplyStart(s)
    \/ \E r \in RunnerIds : ApplyReload(r)
    \/ ApplyRestart
    \/ ApplyEnd
    \/ StopAllBegin
    \/ \E r \in RunnerIds : StopAllStop(r)
    \/ StopAllEnd
    \/ \E r \in RunnerIds : RunnerTop(r)
    \/ \E r \in RunnerIds, ok \in BOOLEAN : RunnerStart(r, ok)
    \/ \E r \in RunnerIds : RunnerSetCmd(r)
    \/ \E r \in RunnerIds : RunnerReap(r)
    \/ \E r \in RunnerIds : RunnerCheck(r)
    \/ \E r \in RunnerIds : RunnerSleep(r)
    \/ \E r \in RunnerIds : ChildExits(r)
    \/ StopBegin
    \/ StopSignal
    \/ StopTimeout
    \/ StopReturn

(***************************************************************************)
(* SpecDial: configureIPv6 at each NewTransport, resolveHost, and          *)
(* mirrorDialer.DialTLSContext over the resolved addresses.                *)
(***************************************************************************)
MaxAddrs == 2

MaxTransports == 2

MaxDials == 2

\* What dns.LookupHost finds for a host: addresses by family, in its order.
HostRecords ==
    UNION {[1..n -> {"v4", "v6"}] : n \in 0..MaxAddrs}

\* The outcomes of the lookups of one resolveHost: the first "ip4" lookup,
\* LookupHost, and the "ip4" lookup made again.
LookupOutcomes == [ip4 : BOOLEAN, host : BOOLEAN, again : BOOLEAN]

IsV4(fam) == fam = "v4"

\* filterIPv4: the addresses without a colon.
filterIPv4(addrs) == SelectSeq(addrs, IsV4)

\* resolveHost.  ok is err == nil; the "ip4" lookups give the IPv4 addresses
\* of the host.
resolveHost(available, records, lk) ==
    IF ~available /\ lk.ip4 /\ SelectSeq(records, IsV4) # <<>>
    THEN [ok |-> TRUE, addrs |-> SelectSeq(records, IsV4)]
    ELSE IF ~lk.host THEN [ok |-> FALSE, addrs |-> <<>>]
    ELSE IF available THEN [ok |-> TRUE, addrs |-> records]
    ELSE IF filterIPv4(records) = <<>> /\ lk.again /\ SelectSeq(records, IsV4) # <<>>
         THEN [ok |-> TRUE, addrs |-> SelectSeq(records, IsV4)]
    ELSE [ok |-> TRUE, addrs |-> filterIPv4(records)]

\* A variant of configureIPv6 without the sync.Once.
configureIPv6Each(v6, route, global) ==
    [available |-> IF route /\ global THEN v6.available ELSE FALSE,
     done      |-> TRUE,
     probes    |-> v6.probes + 1]

\* configureIPv6: ipv6Once.Do runs the probes the first time only, and
\* clears ip.IsIPv6Available unless both find IPv6.
configureIPv6(v6, route, global) ==
    IF v6.done THEN v6
    ELSE [available |-> IF route /\ global THEN v6.available ELSE FALSE,
          done      |-> TRUE,
          probes    |-> v6.probes + 1]

NoDialErr == <<"nil", 0>>

NoDialReturn == [conn |-> 0, err |-> NoDialErr]

\* One step DialTLSContext made: at which address, what, with which
\* fragment length (a handshake), and whether it succeeded.
DialStep(a, what, frag, ok) == [addr |-> a, what |-> what, frag |-> frag, ok |-> ok]

\* The end of one turn of the loop over addrs: the next address, or after
\* the last one the return of lastErr.
dialAfter(idx, n, lastErr) ==
    IF idx < n THEN [pc |-> "dial", idx |-> idx + 1, ret |-> NoDialReturn]
    ELSE [pc |-> "returned", idx |-> idx,
          ret |-> [conn |-> 0,
                   err |-> IF lastErr = NoDialErr THEN <<"no upstream dial succeeded", 0>>
                           ELSE lastErr]]

InitDial ==
    /\ dlV6 \in [available : BOOLEAN, done : {FALSE}, probes : {0}]
    /\ dlFrag \in 0..MaxFragment
    /\ dlTransports = 0
    /\ dlDials = 0
    /\ dlPc = "idle"
    /\ dlAddrs = <<>>
    /\ dlIdx = 0
    /\ dlConns = <<>>
    /\ dlTried = <<>>
    /\ dlLastErr = NoDialErr
    /\ dlRet = NoDialReturn

IdleDial ==
    /\ dlV6 = [available |-> TRUE, done |-> FALSE, probes |-> 0]
    /\ dlFrag = 0
    /\ dlTransports = 0
    /\ dlDials = 0
    /\ dlPc = "off"
    /\ dlAddrs = <<>>
    /\ dlIdx = 0
    /\ dlConns = <<>>
    /\ dlTried = <<>>
    /\ dlLastErr = NoDialErr
    /\ dlRet = NoDialReturn

\* NewTransport (at startup, and at each reload): configureIPv6 with what
\* the probes of the routes and of the interfaces find at that moment.
DialNewTransport(route, global) ==
    /\ dlPc # "off"
    /\ dlTransports < MaxTransports
    /\ dlTransports' = dlTransports + 1
    /\ dlV6' = configureIPv6(dlV6, route, global)
    /\ UNCHANGED <<dialOthers, dlFrag, dlDials, dlPc, dlAddrs, dlIdx, dlConns, dlTried,
                   dlLastErr, dlRet>>

\* DialTLSContext is called by a transport: resolveHost; its error, or no
\* address, is returned at once.
DialResolve(records, lk) ==
    /\ dlPc \in {"idle", "returned"}
    /\ dlTransports > 0
    /\ dlDials < MaxDials
    /\ dlDials' = dlDials + 1
    /\ dlAddrs' = resolveHost(dlV6.available, records, lk).addrs
    /\ dlConns' = <<>>
    /\ dlTried' = <<>>
    /\ dlLastErr' = NoDialErr
    /\ IF ~resolveHost(dlV6.available, records, lk).ok
       THEN /\ dlPc' = "returned"
            /\ dlIdx' = 0
            /\ dlRet' = [conn |-> 0, err |-> <<"lookup", 0>>]
       ELSE IF resolveHost(dlV6.available, records, lk).addrs = <<>>
       THEN /\ dlPc' = "returned"
            /\ dlIdx' = 0
            /\ dlRet' = [conn |-> 0, err |-> <<"no upstream addresses", 0>>]
       ELSE /\ dlPc' = "dial"
            /\ dlIdx' = 1
            /\ dlRet' = NoDialReturn
    /\ UNCHANGED <<dialOthers, dlV6, dlFrag, dlTransports>>

\* dialWithTimeout for the address: a connection, or lastErr = err and
\* continue.
DialConnect(ok) ==
    /\ dlPc = "dial"
    /\ dlTried' = Append(dlTried, DialStep(dlIdx, "dial", 0, ok))
    /\ IF ok
       THEN /\ dlConns' = Append(dlConns, TRUE)
            /\ dlPc' = "handshake"
            /\ UNCHANGED <<dlIdx, dlLastErr, dlRet>>
       ELSE /\ dlLastErr' = <<"dial", dlIdx>>
            /\ dlPc' = dialAfter(dlIdx, Len(dlAddrs), <<"dial", dlIdx>>).pc
            /\ dlIdx' = dialAfter(dlIdx, Len(dlAddrs), <<"dial", dlIdx>>).idx
            /\ dlRet' = dialAfter(dlIdx, Len(dlAddrs), <<"dial", dlIdx>>).ret
            /\ UNCHANGED dlConns
    /\ UNCHANGED <<dialOthers, dlV6, dlFrag, dlTransports, dlDials, dlAddrs>>

\* A variant of the first handshake that gives the address up when it fails.
DialHandshakeOnly(ok) ==
    /\ dlPc = "handshake"
    /\ dlTried' = Append(dlTried, DialStep(dlIdx, "handshake", dlFrag, ok))
    /\ IF ok
       THEN /\ dlPc' = "returned"
            /\ dlRet' = [conn |-> Len(dlConns), err |-> NoDialErr]
            /\ UNCHANGED <<dlConns, dlIdx, dlLastErr>>
       ELSE /\ dlConns' = [dlConns EXCEPT ![Len(dlConns)] = FALSE]
            /\ dlLastErr' = <<"handshake", dlIdx>>
            /\ dlPc' = dialAfter(dlIdx, Len(dlAddrs), <<"handshake", dlIdx>>).pc
            /\ dlIdx' = dialAfter(dlIdx, Len(dlAddrs), <<"handshake", dlIdx>>).idx
            /\ dlRet' = dialAfter(dlIdx, Len(dlAddrs), <<"handshake", dlIdx>>).ret
    /\ UNCHANGED <<dialOthers, dlV6, dlFrag, dlTransports, dlDials, dlAddrs>>

\* d.handshake on the connection, with the configured fragment length: the
\* connection is returned, or closed before the address is dialed again.
DialHandshake(ok) ==
    /\ dlPc = "handshake"
    /\ dlTried' = Append(dlTried, DialStep(dlIdx, "handshake", dlFrag, ok))
    /\ IF ok
       THEN /\ dlPc' = "returned"
            /\ dlRet' = [conn |-> Len(dlConns), err |-> NoDialErr]
            /\ UNCHANGED dlConns
       ELSE /\ dlConns' = [dlConns EXCEPT ![Len(dlConns)] = FALSE]
            /\ dlPc' = "redial"
            /\ UNCHANGED dlRet
    /\ UNCHANGED <<dialOthers, dlV6, dlFrag, dlTransports, dlDials, dlAddrs, dlIdx,
                   dlLastErr>>

\* dialWithTimeout for the same address again.
DialRedial(ok) ==
    /\ dlPc = "redial"
    /\ dlTried' = Append(dlTried, DialStep(dlIdx, "redial", 0, ok))
    /\ IF ok
       THEN /\ dlConns' = Append(dlConns, TRUE)
            /\ dlPc' = "plain"
            /\ UNCHANGED <<dlIdx, dlLastErr, dlRet>>
       ELSE /\ dlLastErr' = <<"redial", dlIdx>>
            /\ dlPc' = dialAfter(dlIdx, Len(dlAddrs), <<"redial", dlIdx>>).pc
            /\ dlIdx' = dialAfter(dlIdx, Len(dlAddrs), <<"redial", dlIdx>>).idx
            /\ dlRet' = dialAfter(dlIdx, Len(dlAddrs), <<"redial", dlIdx>>).ret
            /\ UNCHANGED dlConns
    /\ UNCHANGED <<dialOthers, dlV6, dlFrag, dlTransports, dlDials, dlAddrs>>

\* A variant of the plain handshake that leaves the connection open when it
\* fails.
DialHandshakePlainOpen(ok) ==
    /\ dlPc = "plain"
    /\ dlTried' = Append(dlTried, DialStep(dlIdx, "plain", 0, ok))
    /\ IF ok
       THEN /\ dlPc' = "returned"
            /\ dlRet' = [conn |-> Len(dlConns), err |-> NoDialErr]
            /\ UNCHANGED <<dlIdx, dlLastErr>>
       ELSE /\ dlLastErr' = <<"plain", dlIdx>>
            /\ dlPc' = dialAfter(dlIdx, Len(dlAddrs), <<"plain", dlIdx>>).pc
            /\ dlIdx' = dialAfter(dlIdx, Len(dlAddrs), <<"plain", dlIdx>>).idx
            /\ dlRet' = dialAfter(dlIdx, Len(dlAddrs), <<"plain", dlIdx>>).ret
    /\ UNCHANGED <<dialOthers, dlV6, dlFrag, dlTransports, dlDials, dlAddrs, dlConns>>

\* d.handshakePlain on the second connection: it is returned, or closed
\* with lastErr = err.
DialHandshakePlain(ok) ==
    /\ dlPc = "plain"
    /\ dlTried' = Append(dlTried, DialStep(dlIdx, "plain", 0, ok))
    /\ IF ok
       THEN /\ dlPc' = "returned"
            /\ dlRet' = [conn |-> Len(dlConns), err |-> NoDialErr]
            /\ UNCHANGED <<dlConns, dlIdx, dlLastErr>>
       ELSE /\ dlConns' = [dlConns EXCEPT ![Len(dlConns)] = FALSE]
            /\ dlLastErr' = <<"plain", dlIdx>>
            /\ dlPc' = dialAfter(dlIdx, Len(dlAddrs), <<"plain", dlIdx>>).pc
            /\ dlIdx' = dialAfter(dlIdx, Len(dlAddrs), <<"plain", dlIdx>>).idx
            /\ dlRet' = dialAfter(dlIdx, Len(dlAddrs), <<"plain", dlIdx>>).ret
    /\ UNCHANGED <<dialOthers, dlV6, dlFrag, dlTransports, dlDials, dlAddrs>>

NextDial ==
    \/ \E route \in BOOLEAN, global \in BOOLEAN : DialNewTransport(route, global)
    \/ \E records \in HostRecords, lk \in LookupOutcomes : DialResolve(records, lk)
    \/ \E ok \in BOOLEAN : DialConnect(ok)
    \/ \E ok \in BOOLEAN : DialHandshake(ok)
    \/ \E ok \in BOOLEAN : DialRedial(ok)
    \/ \E ok \in BOOLEAN : DialHandshakePlain(ok)

(***************************************************************************)
(* SpecStream: one response on its way through the ReverseProxy of         *)
(* buildProxy, written to the logResponseWriter of ServeHTTP.              *)
(***************************************************************************)
\* The most body bytes the upstream sends.
MaxBody == 3

\* The bytes the server holds back before it writes to the connection (a
\* small stand-in for the buffers of net/http).
StreamBufSize == 2

StreamMirror ==
    New([Routes |-> <<RouteRoot, RouteBlob, RouteAuth, RouteDeep>>, PublicBase |-> NilBase,
         MaxInflight |-> 0, MaxInflightWait |-> 0])

\* The PublicBase the director attached: a full one, or one without scheme.
StreamBases == {StaticBase, [Scheme |-> <<>>, Host |-> <<"m">>]}

StreamResponses ==
    {[kind |-> "loc", url |-> AbsURL(SchemeHTTPS, h, <<"/", "d">>, <<>>), pieces |-> <<>>,
      more |-> <<>>] : h \in {<<"b">>, <<"e">>, <<"r">>}}
    \cup {[kind |-> "auth", url |-> RelURL(<<>>),
           pieces |-> <<TextPiece(l), RealmPiece(RealmKey, TRUE, <<>>, BlobRealm)>>,
           more |-> <<>>] : l \in {<<"B", " ">>, KelvinSign \o <<" ">>}}

\* The methods of logResponseWriter: those of the embedded
\* http.ResponseWriter interface, two of them overridden.
logResponseWriterMethods == {"Header", "WriteHeader", "Write"}

\* FlushInterval of buildProxy, in milliseconds.
FlushIntervalMs == 100

\* The latency the proxy copies the body with: at once (-1) for a body of
\* unknown length, else FlushInterval.
flushLatency(len) == IF len = "unknown" THEN -1 ELSE FlushIntervalMs

\* A flush through the writer the proxy was given: what the server held back
\* goes to the client when the writer has a Flush (or FlushError, or an
\* Unwrap that leads to one); otherwise the flush is not supported and
\* nothing happens.
flushWith(methods, buf, client) ==
    IF methods \cap {"Flush", "FlushError", "Unwrap"} # {}
    THEN [buf |-> <<>>, client |-> client \o buf]
    ELSE [buf |-> buf, client |-> client]

\* A flush through the logResponseWriter.
flushWriter(buf, client) == flushWith(logResponseWriterMethods, buf, client)

\* A Write to the server: held back up to StreamBufSize body bytes, beyond
\* that everything held back is written to the connection.
serverWrite(buf, client, b) ==
    IF Len(buf) > StreamBufSize
    THEN [buf |-> <<>>, client |-> client \o Append(buf, b)]
    ELSE [buf |-> Append(buf, b), client |-> client]

InitStream ==
    /\ stBase \in StreamBases
    /\ stResp \in StreamResponses
    /\ stLen \in {"known", "unknown"}
    /\ stPc = "got"
    /\ stHdr = ResponseHeaders(stResp)
    /\ stModified = FALSE
    /\ stBuf = <<>>
    /\ stClient = <<>>
    /\ stRecv = 0
    /\ stPending = FALSE

IdleStream ==
    /\ stBase = StaticBase
    /\ stResp = NoResponse
    /\ stLen = "known"
    /\ stPc = "off"
    /\ stHdr = NoHeaders
    /\ stModified = FALSE
    /\ stBuf = <<>>
    /\ stClient = <<>>
    /\ stRecv = 0
    /\ stPending = FALSE

\* RoundTrip has returned the response: the proxy calls ModifyResponse, here
\* m.modifyResponse; when it panics the handler is aborted and the client
\* gets nothing.
StreamModify ==
    /\ stPc = "got"
    /\ IF modifyResponse(StreamMirror, stBase, stHdr).panic
       THEN /\ stPc' = "panic"
            /\ UNCHANGED <<stHdr, stModified>>
       ELSE /\ stPc' = "modified"
            /\ stModified' = TRUE
            /\ stHdr' = [Location |-> modifyResponse(StreamMirror, stBase, stHdr).Location,
                         Auth |-> modifyResponse(StreamMirror, stBase, stHdr).Auth]
    /\ UNCHANGED <<streamOthers, stBase, stResp, stLen, stBuf, stClient, stRecv, stPending>>

\* A variant that hands the headers on as soon as the response is there.
StreamWriteHeaderEarly ==
    /\ stPc = "got"
    /\ stPc' = "body"
    /\ stBuf' = Append(stBuf, <<"head", stHdr>>)
    /\ stPending' = (flushLatency(stLen) > 0)
    /\ UNCHANGED <<streamOthers, stBase, stResp, stLen, stHdr, stModified, stClient, stRecv>>

\* The proxy copies the headers of the response to the writer and calls
\* WriteHeader; copyResponse begins, with a flush pending when the latency
\* is positive.
StreamWriteHeader ==
    /\ stPc = "modified"
    /\ stPc' = "body"
    /\ stBuf' = Append(stBuf, <<"head", stHdr>>)
    /\ stPending' = (flushLatency(stLen) > 0)
    /\ UNCHANGED <<streamOthers, stBase, stResp, stLen, stHdr, stModified, stClient, stRecv>>

\* The upstream sends a byte of the body and copyResponse writes it to the
\* logResponseWriter: with a negative latency a flush follows at once,
\* otherwise one is pending.
StreamCopy ==
    /\ stPc = "body"
    /\ stRecv < MaxBody
    /\ stRecv' = stRecv + 1
    /\ IF flushLatency(stLen) < 0
       THEN /\ stBuf' = flushWriter(serverWrite(stBuf, stClient, <<"byte", stRecv + 1>>).buf,
                            serverWrite(stBuf, stClient, <<"byte", stRecv + 1>>).client).buf
            /\ stClient' = flushWriter(serverWrite(stBuf, stClient, <<"byte", stRecv + 1>>).buf,
                            serverWrite(stBuf, stClient, <<"byte", stRecv + 1>>).client).client
            /\ UNCHANGED stPending
       ELSE /\ stBuf' = serverWrite(stBuf, stClient, <<"byte", stRecv + 1>>).buf
            /\ stClient' = serverWrite(stBuf, stClient, <<"byte", stRecv + 1>>).client
            /\ stPending' = TRUE
    /\ UNCHANGED <<streamOthers, stBase, stResp, stLen, stPc, stHdr, stModified>>

\* The timer of the pending flush fires after FlushInterval: delayedFlush.
StreamTick ==
    /\ stPc = "body"
    /\ stPending
    /\ stPending' = FALSE
    /\ stBuf' = flushWriter(stBuf, stClient).buf
    /\ stClient' = flushWriter(stBuf, stClient).client
    /\ UNCHANGED <<streamOthers, stBase, stResp, stLen, stPc, stHdr, stModified, stRecv>>

\* The upstream ends the body: copyResponse and ServeHTTP return, and the
\* server writes out what it held back.
StreamFinish ==
    /\ stPc = "body"
    /\ stPc' = "end"
    /\ stPending' = FALSE
    /\ stBuf' = <<>>
    /\ stClient' = stClient \o stBuf
    /\ UNCHANGED <<streamOthers, stBase, stResp, stLen, stHdr, stModified, stRecv>>

NextStream == StreamModify \/ StreamWriteHeader \/ StreamCopy \/ StreamTick \/ StreamFinish

(***************************************************************************)
(* SpecSignal: SIGHUP, the reload channel of main and the goroutine that   *)
(* runs reloadConfig.                                                      *)
(***************************************************************************)
\* The most SIGHUPs sent, and the most changes of the configuration file.
MaxSignals == 3

MaxEdits == 2

SignalIds == 1..MaxSignals

\* make(chan os.Signal, 1)
ReloadChanCap == 1

\* A variant in which a signal is passed on only to a goroutine that waits
\* for it.
notifyWhenWaiting(buffered, waiting) ==
    IF waiting /\ buffered < ReloadChanCap THEN buffered + 1 ELSE buffered

\* signal.Notify delivers without blocking: the signal is put in the channel
\* when there is room and dropped when there is none.
notify(buffered, waiting) ==
    IF buffered < ReloadChanCap THEN buffered + 1 ELSE buffered

\* The state of the last attempt of the log that succeeded (0: the one main
\* started with).
lastPublished(log) ==
    IF \E i \in 1..Len(log) : log[i].ok
    THEN log[CHOOSE i \in 1..Len(log) : log[i].ok /\ \A j \in (i + 1)..Len(log) : ~log[j].ok].read
    ELSE 0

InitSignal ==
    /\ sgPc = "recv"
    /\ sgChan = 0
    /\ sgSent = 0
    /\ sgUnread = {}
    /\ sgFile = 0
    /\ sgRead = 0
    /\ sgRunning = 0
    /\ sgLog = <<>>
    /\ sgLive = 0

IdleSignal ==
    /\ sgPc = "off"
    /\ sgChan = 0
    /\ sgSent = 0
    /\ sgUnread = {}
    /\ sgFile = 0
    /\ sgRead = 0
    /\ sgRunning = 0
    /\ sgLog = <<>>
    /\ sgLive = 0

\* A SIGHUP is delivered to the process.
Sighup ==
    /\ sgPc # "off"
    /\ sgSent < MaxSignals
    /\ sgSent' = sgSent + 1
    /\ sgUnread' = sgUnread \cup {sgSent + 1}
    /\ sgChan' = notify(sgChan, sgPc = "recv")
    /\ UNCHANGED <<signalOthers, sgPc, sgFile, sgRead, sgRunning, sgLog, sgLive>>

\* The operator changes the configuration file.
EditFile ==
    /\ sgPc # "off"
    /\ sgFile < MaxEdits
    /\ sgFile' = sgFile + 1
    /\ UNCHANGED <<signalOthers, sgPc, sgChan, sgSent, sgUnread, sgRead, sgRunning, sgLog,
                   sgLive>>

\* for range reload: a signal is taken from the channel and reloadMu locked.
SignalReceive ==
    /\ sgPc = "recv"
    /\ sgChan > 0
    /\ sgChan' = sgChan - 1
    /\ sgPc' = "load"
    /\ sgRunning' = sgRunning + 1
    /\ UNCHANGED <<signalOthers, sgSent, sgUnread, sgFile, sgRead, sgLog, sgLive>>

\* reloadConfig reads the file: mirror.LoadConfig.
SignalLoad ==
    /\ sgPc = "load"
    /\ sgRead' = sgFile
    /\ sgUnread' = {}
    /\ sgPc' = "build"
    /\ UNCHANGED <<signalOthers, sgChan, sgSent, sgFile, sgRunning, sgLog, sgLive>>

\* The rest of reloadConfig: an error of LoadConfig, Runtime, the upstream
\* checks or New is returned, or the new state is stored; then reloadMu is
\* unlocked.
SignalFinish(ok) ==
    /\ sgPc = "build"
    /\ sgLog' = Append(sgLog, [read |-> sgRead, ok |-> ok])
    /\ sgLive' = IF ok THEN sgRead ELSE sgLive
    /\ sgRunning' = sgRunning - 1
    /\ sgPc' = "recv"
    /\ UNCHANGED <<signalOthers, sgChan, sgSent, sgUnread, sgFile, sgRead>>

\* The steps of the reload goroutine.
SignalSteps == SignalReceive \/ SignalLoad \/ (\E ok \in BOOLEAN : SignalFinish(ok))

NextSignal ==
    \/ Sighup
    \/ EditFile
    \/ SignalReceive
    \/ SignalLoad
    \/ \E ok \in BOOLEAN : SignalFinish(ok)

(***************************************************************************)
(* Specifications.                                                         *)
(***************************************************************************)
Init == InitGate /\ IdleRoute /\ IdleRewrite /\ IdleFallback /\ IdleReload /\ IdleSupervisor /\ IdleDial /\ IdleStream /\ IdleSignal

Next == NextGate

Spec == Init /\ [][Next]_vars

InitSpecRoute == IdleGate /\ InitRoute /\ IdleRewrite /\ IdleFallback /\ IdleReload /\ IdleSupervisor /\ IdleDial /\ IdleStream /\ IdleSignal

SpecRoute == InitSpecRoute /\ [][NextRoute]_vars

InitSpecRewrite == IdleGate /\ IdleRoute /\ InitRewrite /\ IdleFallback /\ IdleReload /\ IdleSupervisor /\ IdleDial /\ IdleStream /\ IdleSignal

SpecRewrite == InitSpecRewrite /\ [][NextRewrite]_vars

InitSpecFallback == IdleGate /\ IdleRoute /\ IdleRewrite /\ InitFallback /\ IdleReload /\ IdleSupervisor /\ IdleDial /\ IdleStream /\ IdleSignal

SpecFallback == InitSpecFallback /\ [][NextFallback]_vars

\* RoundTrip is a call that runs on: each of its steps is taken in the end.
SpecFallbackFair == SpecFallback /\ WF_vars(NextFallback)

InitSpecReload == IdleGate /\ IdleRoute /\ IdleRewrite /\ IdleFallback /\ InitReload /\ IdleSupervisor /\ IdleDial /\ IdleStream /\ IdleSignal

SpecReload == InitSpecReload /\ [][NextReload]_vars

InitSpecSupervisor ==
    /\ IdleGate /\ IdleRoute /\ IdleRewrite /\ IdleFallback /\ IdleReload
    /\ InitSupervisor /\ IdleDial /\ IdleStream /\ IdleSignal

SpecSupervisor == InitSpecSupervisor /\ [][NextSupervisor]_vars

InitSpecDial ==
    /\ IdleGate /\ IdleRoute /\ IdleRewrite /\ IdleFallback /\ IdleReload
    /\ IdleSupervisor /\ InitDial /\ IdleStream /\ IdleSignal

SpecDial == InitSpecDial /\ [][NextDial]_vars

InitSpecStream ==
    /\ IdleGate /\ IdleRoute /\ IdleRewrite /\ IdleFallback /\ IdleReload
    /\ IdleSupervisor /\ IdleDial /\ InitStream /\ IdleSignal

SpecStream == InitSpecStream /\ [][NextStream]_vars

InitSpecSignal ==
    /\ IdleGate /\ IdleRoute /\ IdleRewrite /\ IdleFallback /\ IdleReload
    /\ IdleSupervisor /\ IdleDial /\ IdleStream /\ InitSignal

SpecSignal == InitSpecSignal /\ [][NextSignal]_vars

\* The reload goroutine runs on: each of its steps is taken in the end.
SpecSignalFair == SpecSignal /\ WF_vars(SignalSteps)

\* The timer of a pending flush fires in the end.  Nothing makes the
\* upstream send or finish.
SpecStreamFair == SpecStream /\ WF_vars(StreamTick)

\* Every step of main, of a loop and of stop that can be taken is taken in
\* the end; a child exits, a start fails and a signal arrives when they do.
SpecSupervisorFair == SpecSupervisor /\ WF_vars(SupervisorSteps)

(***************************************************************************)
(* The admission gate (Spec).                                              *)
(***************************************************************************)
\* The proxied requests admitted and not yet completed.
InFlight == {i \in Reqs : pc[i] \in {"upstream", "stream"}}

\* Request i arrives in this step as a proxied request (not an internal
\* endpoint) that matches a route.
ArrivesProxied(i) ==
    /\ pc[i] = "idle"
    /\ pc'[i] # "idle"
    /\ serveInternal(mirror, gate, req'[i].Path) = 0
    /\ matchRoute(mirror.routes, req'[i].Path) # NilRoute

\* C1: with max_inflight = N > 0, the number of proxied requests admitted
\* and not yet completed is at most N in every reachable state.
C1_InflightAtMostN == mirror.cap > 0 => Cardinality(InFlight) <= mirror.cap

\* C1: N = 2 requests are in flight and a third one was turned away.
C1_Witness ==
    /\ mirror.cap = 2
    /\ Cardinality(InFlight) = 2
    /\ \E i \in Reqs : outcome[i] = "rejected"

\* C2: with max_inflight = N > 0 and no wait, a proxied request arriving
\* while N admitted requests are in flight is answered 429 at once and is
\* never forwarded; one arriving while fewer are in flight (after a
\* completion) is admitted and forwarded.
C2_RejectAtCapacityAdmitAfter ==
    /\ [][\A i \in Reqs :
            (ArrivesProxied(i) /\ mirror.cap > 0 /\ mirror.wait = 0) =>
                IF Cardinality(InFlight) = mirror.cap
                THEN /\ pc'[i] = "done"
                     /\ status'[i] = StatusTooManyRequests
                     /\ ~forwarded'[i]
                     /\ ~permit'[i]
                ELSE /\ pc'[i] = "upstream"
                     /\ forwarded'[i]]_vars
    /\ [](\A i \in Reqs :
            (mirror.wait = 0 /\ status[i] = StatusTooManyRequests) => ~forwarded[i])

\* C2: N = 1, no wait: one request was answered 429, one has completed
\* after being forwarded, and a later one is in flight.
C2_Witness ==
    /\ mirror.cap = 1 /\ mirror.wait = 0
    /\ \E i, j, k \in Reqs :
          /\ status[i] = StatusTooManyRequests /\ pc[i] = "done" /\ ~forwarded[i]
          /\ pc[j] = "done" /\ outcome[j] = "ok" /\ forwarded[j]
          /\ pc[k] = "upstream" /\ forwarded[k]

C4_OccupancyIsInFlight ==
    /\ [](mirror.cap > 0 =>
            /\ gate = Cardinality(InFlight)
            /\ InFlight = {i \in Reqs : permit[i]}
            /\ (InFlight = {} => gate = 0))
    /\ [][\A i \in Reqs :
            (mirror.cap > 0 /\ i \in InFlight /\ pc'[i] = "done") =>
                gate' = gate - 1 /\ ~permit'[i]]_vars

\* C4: requests have ended by upstream error, by cancellation during the
\* round-trip and by cancellation during streaming, and the gate is empty.
C4_Witness ==
    /\ mirror.cap > 0
    /\ gate = 0
    /\ {outcome[i] : i \in Reqs} = {"error", "canceled", "aborted"}
    /\ \A i \in Reqs : forwarded[i]

\* C5: /_rmirror/readyz answers 503 exactly when the occupancy of the gate
\* equals max_inflight > 0, and 200 in every other state; with
\* max_inflight = 0 it always answers 200.
C5_ReadyzBusyIffAtCapacity ==
    [][\A i \in Reqs :
          (pc[i] = "idle" /\ pc'[i] # "idle" /\ req'[i].Path = ReadyzPath) =>
              /\ pc'[i] = "done"
              /\ status'[i] = IF mirror.cap > 0 /\ gate = mirror.cap
                              THEN StatusServiceUnavailable
                              ELSE StatusOK
              /\ gate' = gate]_vars

\* C5: with a gate, one readyz probe was answered 503 and another 200.
C5_Witness ==
    /\ mirror.cap > 0
    /\ \E i, j \in Reqs :
          /\ req[i].Path = ReadyzPath /\ status[i] = StatusServiceUnavailable
          /\ req[j].Path = ReadyzPath /\ status[j] = StatusOK

(***************************************************************************)
(* Route selection and the outbound request (SpecRoute).                   *)
(***************************************************************************)
\* prefix is p itself or a slash-bounded prefix of p; the root is one of every p.
SlashBoundedPrefix(prefix, p) ==
    \/ prefix = <<"/">>
    \/ prefix = p
    \/ /\ Len(p) > Len(prefix)
       /\ \A k \in 1..Len(prefix) : p[k] = prefix[k]
       /\ p[Len(prefix) + 1] = "/"

\* The configured routes, as a set: their order plays no part.
ConfiguredRoutes == {newRoute(rtCfg[i]) : i \in 1..Len(rtCfg)}

\* The configured routes whose public prefix matches the request path.
MatchingRoutes ==
    {r \in ConfiguredRoutes : SlashBoundedPrefix(r.publicPrefix, rtReq.Path)}

\* C6: the route chosen for a path is the configured route with the longest
\* public prefix that equals the path or is a slash-bounded prefix of it
\* (the root matches every path), whatever the configured order; no route
\* is chosen only when none matches.
C6_LongestPrefixRoute ==
    rtPc \in {"matched", "nomatch", "sent"} =>
        IF MatchingRoutes = {}
        THEN rtPc = "nomatch" /\ rtMatch = NilRoute
        ELSE /\ rtPc # "nomatch"
             /\ rtMatch \in MatchingRoutes
             /\ \A r \in MatchingRoutes :
                   Len(r.publicPrefix) <= Len(rtMatch.publicPrefix)

\* C6: three routes match, the root is configured first, and the longest
\* prefix /a/b is the one chosen.
C6_Witness ==
    /\ rtPc = "matched"
    /\ Len(rtCfg) = 3
    /\ rtCfg[1] = RouteRoot
    /\ Cardinality(MatchingRoutes) = 3
    /\ rtMatch.publicPrefix = <<"/", "a", "/", "b">>

\* C6, the other case: routes are configured and none matches the path.
C6_WitnessNone ==
    /\ rtPc = "nomatch"
    /\ Len(rtCfg) = 2

\* The part of path p that follows the public prefix, without the slash
\* that separates the two.
AfterPrefix(prefix, p) ==
    LET rest == IF prefix = <<"/">> THEN p ELSE SubSeq(p, Len(prefix) + 1, Len(p))
    IN  IF rest # <<>> /\ rest[1] = "/" THEN Tail(rest) ELSE rest

\* The base path and the rest with exactly one slash at the join.
JoinedWithOneSlash(base, rest) ==
    (IF base = <<"/">> THEN <<>> ELSE base) \o <<"/">> \o rest

\* C7: the outbound request of a matched request has the scheme and host of
\* the route's upstream, the base path joined by one slash with what
\* follows the public prefix, the query unchanged, the raw path cleared,
\* and as Host the upstream host, or the client's under preserveHost.
C7_OutboundRequest ==
    rtPc = "sent" =>
        /\ rtOut.Scheme = rtMatch.upstream.Scheme
        /\ rtOut.URLHost = rtMatch.upstream.Host
        /\ rtOut.Path = JoinedWithOneSlash(rtMatch.upstream.Path,
                                           AfterPrefix(rtMatch.publicPrefix, rtReq.Path))
        /\ rtOut.RawQuery = rtReq.RawQuery
        /\ rtOut.RawPath = <<>>
        /\ rtOut.Host = IF rtMatch.preserveHost THEN rtReq.Host
                        ELSE rtMatch.upstream.Host

\* C7: a request with a raw path, matched to a route with base path /v1
\* that preserves the Host, leaves for /v1/b.
C7_Witness ==
    /\ rtPc = "sent"
    /\ rtReq.RawPath # <<>>
    /\ rtMatch.preserveHost
    /\ rtMatch.upstream.Path = <<"/", "v", "1">>
    /\ rtOut.Path = <<"/", "v", "1", "/", "b">>
    /\ rtOut.Host = rtReq.Host

\* C7: a request with a query, matched to the root route without
\* preserveHost, leaves with the query and the upstream's Host.
C7_WitnessQuery ==
    /\ rtPc = "sent"
    /\ rtReq.RawQuery # <<>>
    /\ rtMatch.publicPrefix = <<"/">>
    /\ ~rtMatch.preserveHost
    /\ rtOut.RawQuery = rtReq.RawQuery
    /\ rtOut.Host = rtMatch.upstream.Host

(***************************************************************************)
(* Response rewriting (SpecRewrite).                                       *)
(***************************************************************************)
RewriteRouteSet == {rwMirror.routes[i] : i \in 1..Len(rwMirror.routes)}

\* Hosts equal without regard to the case of ASCII letters.
SameHost(a, b) ==
    /\ Len(a) = Len(b)
    /\ \A k \in 1..Len(a) : LowerChar(a[k]) = LowerChar(b[k])

\* The routes whose upstream the absolute URL l matches: same host, same
\* scheme if it has one, path under the base path.
MatchingUpstreams(l) ==
    {r \in RewriteRouteSet :
        /\ SameHost(l.Host, r.upstream.Host)
        /\ l.Scheme \in {<<>>, r.upstream.Scheme}
        /\ SlashBoundedPrefix(r.upstream.Path, l.Path)}

\* Among them, those with the longest base path.
LongestBase(l) ==
    {r \in MatchingUpstreams(l) :
        \A r2 \in MatchingUpstreams(l) : Len(r2.upstream.Path) <= Len(r.upstream.Path)}

\* The public URL of l through route r: the origin of the PublicBase, the
\* public prefix joined with what follows the base path, the query kept.
PublicURL(pb, r, l) ==
    pb.Scheme \o <<":", "/", "/">> \o pb.Host
    \o JoinedWithOneSlash(r.publicPrefix, AfterPrefix(r.upstream.Path, l.Path))
    \o (IF l.Query = <<>> THEN <<>> ELSE <<"?">> \o l.Query)

Rewritable(l) == l.abs /\ MatchingUpstreams(l) # {}

\* What a URL may become: its public equivalents, or itself when it is not
\* absolute or matches no route.
PublicEquivalents(pb, l) ==
    IF Rewritable(l) THEN {PublicURL(pb, r, l) : r \in LongestBase(l)} ELSE {l.Raw}

HasPublicBase == rwBase.Scheme # <<>> /\ rwBase.Host # <<>>

\* C8: a Location with an absolute URL that matches the upstream of a route
\* reaches the client with the scheme and host of the PublicBase and as path
\* the public prefix of the route with the longest matching base path
\* joined with what follows that base path.
C8_LocationRewritten ==
    (rwPc = "done" /\ rwResp.kind = "loc" /\ Rewritable(rwResp.url)) =>
        rwOut.Location \in PublicEquivalents(rwBase, rwResp.url)

\* The same for the requests whose PublicBase has a scheme and a host.
LocationRewrittenWithBase ==
    (rwPc = "done" /\ rwResp.kind = "loc" /\ Rewritable(rwResp.url) /\ HasPublicBase) =>
        rwOut.Location \in PublicEquivalents(rwBase, rwResp.url)

\* A matching Location reached the client rewritten: the longer of two
\* matching base paths was used.
LocationRewrittenCase ==
    /\ rwPc = "done"
    /\ rwResp.kind = "loc"
    /\ Cardinality(MatchingUpstreams(rwResp.url)) = 2
    /\ Cardinality(LongestBase(rwResp.url)) = 1
    /\ HasPublicBase
    /\ rwOut.Location # rwResp.url.Raw

\* The request carries a PublicBase without host or without scheme and the
\* matching Location reached the client as the upstream sent it.
LocationSkippedCase ==
    /\ rwPc = "done"
    /\ rwResp.kind = "loc"
    /\ Rewritable(rwResp.url)
    /\ ~HasPublicBase
    /\ rwOut.Location = rwResp.url.Raw

\* What a piece of a WWW-Authenticate value may become: a realm URL becomes
\* its public equivalent, quoted if it was quoted, and without the white
\* space around it if it was not; every other byte stays.
ExpectedPiece(pb, p) ==
    IF ~p.realm THEN {p.text}
    ELSE IF p.quoted
         THEN {p.key \o Quote \o e \o Quote : e \in PublicEquivalents(pb, p.url)}
    ELSE IF Rewritable(p.url)
         THEN {p.key \o e : e \in PublicEquivalents(pb, p.url)}
    ELSE {p.key \o p.pad \o p.url.Raw \o p.pad}

RECURSIVE ExpectedValues(_, _)
ExpectedValues(pb, pieces) ==
    IF pieces = <<>> THEN {<<>>}
    ELSE {h \o t : h \in ExpectedPiece(pb, Head(pieces)),
                   t \in ExpectedValues(pb, Tail(pieces))}

\* C9: in every WWW-Authenticate value, the URL of each realm= parameter
\* (any case of the key, quoted or unquoted up to the next comma) that
\* matches a route's upstream is replaced by its public equivalent, a quoted
\* realm stays quoted and every other byte of the value is unchanged.
C9_RealmRewritten ==
    (rwPc \in {"done", "panic"} /\ rwResp.kind = "auth" /\ HasPublicBase) =>
        /\ rwPc = "done"
        /\ Len(rwOut.Auth) = 1
        /\ rwOut.Auth[1] \in ExpectedValues(rwBase, rwResp.pieces)

\* The value has no byte above 0x7F.
AsciiValue(pieces) ==
    \A k \in 1..Len(ValueText(pieces)) : ValueText(pieces)[k] \notin HighBytes

\* The same for the values made of ASCII bytes.
RealmRewrittenInAscii ==
    (rwPc \in {"done", "panic"} /\ rwResp.kind = "auth" /\ HasPublicBase
     /\ AsciiValue(rwResp.pieces)) =>
        /\ rwPc = "done"
        /\ Len(rwOut.Auth) = 1
        /\ rwOut.Auth[1] \in ExpectedValues(rwBase, rwResp.pieces)

\* Two realm parameters of an ASCII value were rewritten, one quoted and
\* one not.
RealmRewrittenCase ==
    /\ rwPc = "done"
    /\ rwResp.kind = "auth"
    /\ HasPublicBase
    /\ AsciiValue(rwResp.pieces)
    /\ Len(rwResp.pieces) = 4
    /\ ~rwResp.pieces[2].quoted
    /\ Rewritable(rwResp.pieces[2].url)
    /\ rwOut.Auth[1] # ValueText(rwResp.pieces)

\* A value with a byte above 0x7F before realm= reached the client with its
\* matching realm URL as the upstream sent it.
RealmMissedCase ==
    /\ rwPc = "done"
    /\ rwResp.kind = "auth"
    /\ HasPublicBase
    /\ Rewritable(rwResp.pieces[2].url)
    /\ rwOut.Auth[1] = ValueText(rwResp.pieces)

\* A value with a byte above 0x7F made rewriteAuthHeader panic.
RealmPanicCase == rwPc = "panic" /\ rwResp.kind = "auth"

(***************************************************************************)
(* The fallback chain (SpecFallback).                                      *)
(***************************************************************************)
\* Safely retriable: idempotent by method, or no body, or a body producer.
SafelyRetriable(rq) ==
    \/ rq.Method \in {MethodGet, MethodHead, MethodOptions}
    \/ rq.Body = "nil"
    \/ rq.ContentLength = 0
    \/ rq.GetBody

\* The connection-reset class among the errors the transports return.
ResetClass(err) ==
    /\ ~err.nil
    /\ \/ err.wraps \in {"ECONNRESET", "EPIPE", "EOF"}
       \/ err.msg = <<"r", "e", "a", "d", ":", " ", "C">> \o Tail(ResetText)

\* RoundTrip of the chain has returned for a safely retriable request whose
\* primary attempt failed with a connection-reset-class error.
FallbackCase ==
    /\ fbPc = "done"
    /\ fbT.chain
    /\ SafelyRetriable(fbReq)
    /\ ResetClass(fbAttempts[1].res.err)

\* The number of attempts made on fallback transports.
FallbackAttempts == Len(fbAttempts) - 1

\* The fallbacks were tried in sequence order, an attempt without error was
\* the last one and its response was returned, and the counter got one
\* (from, to) increment per fallback attempt.
FallbackAsClaimed ==
    /\ FallbackAttempts >= 1
    /\ \A k \in 1..FallbackAttempts :
           /\ fbAttempts[k + 1].transport = k
           /\ fbAttempts[k + 1].frag = fallbackFragmentLens(fbT.primaryFragment)[k]
    /\ \A k \in 1..Len(fbAttempts) :
           fbAttempts[k].res.err.nil
               => k = Len(fbAttempts) /\ fbRet = fbAttempts[k].res
    /\ Len(fbCounted) = FallbackAttempts
    /\ \A k \in 1..FallbackAttempts :
           fbCounted[k] = <<fbAttempts[k].frag, fbAttempts[k + 1].frag>>

\* C10: for a safely retriable request whose primary attempt fails with a
\* connection-reset-class error, the fallbacks are tried in sequence order,
\* the first response obtained without error is returned, and exactly one
\* fallback transition (from, to) is recorded per fallback attempt made.
C10_FallbackRetriesAndCounts == FallbackCase => FallbackAsClaimed

\* The same when every call of GetBody succeeded.
FallbackAsClaimedWhenCloned == (FallbackCase /\ ~fbCloneErr) => FallbackAsClaimed

\* The first fallback answers: one attempt on it, one transition.
FallbackFirstSucceedsCase ==
    /\ FallbackCase
    /\ FallbackAttempts = 1
    /\ fbRet = [resp |-> StatusOK, err |-> NilErr]
    /\ fbCounted = <<<<fbT.primaryFragment, 1>>>>

\* Both fallbacks were tried.
FallbackBothTriedCase ==
    /\ FallbackCase
    /\ FallbackAttempts = 2
    /\ fbCounted = <<<<fbT.primaryFragment, 1>>, <<1, 0>>>>

\* GetBody failed before the first fallback: a transition was counted and
\* no fallback was tried.
FallbackCountedWithoutAttemptCase ==
    /\ FallbackCase
    /\ fbCloneErr
    /\ FallbackAttempts = 0
    /\ Len(fbCounted) = 1

\* A non-empty body and no fresh-body producer.
NonReplayableBody(rq) ==
    /\ rq.Body = "body"
    /\ rq.ContentLength # 0
    /\ ~rq.GetBody

NonReplayableGetRetriedCase ==
    /\ fbPc = "done"
    /\ NonReplayableBody(fbReq)
    /\ fbReq.Method = MethodGet
    /\ Len(fbAttempts) = 2

(***************************************************************************)
(* Hot reload (SpecReload).                                                *)
(***************************************************************************)
\* Every part that served request i so far belongs to the state it loaded
\* on entry.
ServedByLoadedState(i) ==
    \A k \in 1..Len(rlServed[i].by) : rlServed[i].by[k][2] = rlServed[i].state.id

\* Request i enters in this step.
Enters(i) == rlServed[i].pc = "idle" /\ rlServed'[i].pc # "idle"

\* C12: a request loads the live state once, on entry, and every part that
\* serves it (handler, route table, gate, transport) is that state's, also
\* when a reload publishes a new state meanwhile; a request that enters
\* after the publish loads the new state; and the old transport is asked to
\* close its idle connections only once the new state is live.
C12_ServedByOneState ==
    /\ [](\A i \in ReloadReqs : ServedByLoadedState(i))
    /\ [](rlCurrent.transport.id \notin rlClosed)
    /\ [][/\ \A i \in ReloadReqs :
                /\ Enters(i) => rlServed'[i].state = rlCurrent
                /\ ~Enters(i) => rlServed'[i].state = rlServed[i].state
          /\ rlClosed' # rlClosed
                => /\ rlCurrent = rlNext
                   /\ rlClosed' = rlClosed \cup {rlPrev.transport.id}
                   /\ rlPrev # rlCurrent]_vars

\* A request that entered before a reload is upstream on the old state, whose
\* transport was asked to close its idle connections, while a later request
\* is served by the new state.
C12_Witness ==
    /\ rlCurrent.id = 2
    /\ rlClosed = {1}
    /\ rlServed[1].pc = "upstream"
    /\ rlServed[1].state.id = 1
    /\ rlServed[1].by = <<<<"handler", 1>>, <<"routes", 1>>, <<"gate", 1>>,
                          <<"transport", 1>>>>
    /\ rlServed[2].pc = "upstream"
    /\ rlServed[2].state.id = 2

\* The last reload failed.
LastReloadFailed(log) == log # <<>> /\ log[Len(log)][1] = "reload failed"

\* C13: a reload that fails (load, validation, upstream checks or New) leaves
\* the live state exactly as it was, and with it the requests in flight; the
\* requests that enter afterwards load that same state.
C13_FailedReloadKeepsState ==
    /\ [][(Len(rlLog') > Len(rlLog) /\ LastReloadFailed(rlLog'))
            => /\ rlCurrent' = rlCurrent
               /\ rlServed' = rlServed
               /\ rlClosed' = rlClosed]_vars
    /\ [][\A i \in ReloadReqs : Enters(i) => rlServed'[i].state = rlCurrent]_vars
    /\ [](rlCurrent.id >= 1 /\ runtimeOK([readable |-> TRUE, cfg |-> rlCurrent.runtime,
                                          frag |-> 0]))

\* A reload failed at the upstream checks, the state stayed, a request was
\* served by it, and the next reload succeeded.
C13_Witness ==
    /\ rlLog = <<<<"reload failed", "check">>, <<"reload succeeded", "">>>>
    /\ rlCurrent.id = 2
    /\ rlServed[1].pc = "done"
    /\ rlServed[1].state.id = 1
    /\ rlServed[1].status = StatusOK

\* Each way to fail was seen.
C13_WitnessLoad ==
    /\ rlLog = <<<<"reload failed", "load">>, <<"reload failed", "runtime">>>>
    /\ rlCurrent.id = 1

(***************************************************************************)
(* Upstream failures, route misses and the observer (Spec).                *)
(***************************************************************************)
\* The route that matched the inbound request of i.
InboundRoute(i) == matchRoute(mirror.routes, req[i].Path)

\* The metric label of that route.
InboundLabel(i) == routeMetricLabel(InboundRoute(i), req[i].Path)

\* The round-trip of request i failed.
RoundTripFailed(i) == pc[i] = "done" /\ outcome[i] \in {"error", "canceled"}

\* C14: a failed round-trip of a routed request is answered 502 'upstream
\* error', or 408 'request canceled' when the context was canceled, and the
\* request completes its lifecycle: permit released, request observed once
\* with that status.
C14_UpstreamFailureTranslated ==
    \A i \in Reqs :
        RoundTripFailed(i) =>
            /\ forwarded[i]
            /\ outcome[i] = "canceled"
                  => status[i] = StatusRequestTimeout /\ body[i] = "request canceled"
            /\ outcome[i] = "error"
                  => status[i] = StatusBadGateway /\ body[i] = "upstream error"
            /\ ~permit[i]
            /\ i \notin InFlight
            /\ Len(observed[i]) = 1
            /\ observed[i][1][2] = status[i]

\* One request was answered 502 and another 408 after their round-trips
\* failed, on a gated mirror whose gate is empty again.
C14_Witness ==
    /\ mirror.cap > 0
    /\ gate = 0
    /\ \E i, j \in Reqs :
          /\ RoundTripFailed(i) /\ status[i] = StatusBadGateway
          /\ RoundTripFailed(j) /\ status[j] = StatusRequestTimeout

\* C15: every failed round-trip increments upstream_errors once, under the
\* label of the route that matched the inbound request, the label under
\* which the request is observed.
C15_ErrorCountedForMatchedRoute ==
    \A i \in Reqs :
        RoundTripFailed(i) =>
            /\ errLabels[i] = <<InboundLabel(i)>>
            /\ Len(observed[i]) = 1
            /\ observed[i][1][1] = errLabels[i][1]

\* upstream_errors is incremented once per failed round-trip, and not
\* otherwise.
ErrorCountedOnce ==
    \A i \in Reqs :
        Len(errLabels[i]) = IF RoundTripFailed(i) THEN 1 ELSE 0

\* A request matched by route api failed upstream and its error was counted
\* as unmatched.
ErrorCountedUnmatchedCase ==
    \E i \in Reqs :
        /\ RoundTripFailed(i)
        /\ InboundLabel(i) = <<"a", "p", "i">>
        /\ errLabels[i] = <<Unmatched>>

\* C16: every proxied request that has ended was observed exactly once, with
\* the label of its route (or unmatched) and the status sent to the client.
C16_ObservedExactlyOnce ==
    \A i \in Reqs :
        (pc[i] = "done" /\ outcome[i] # "internal") =>
            observed[i] = <<<<InboundLabel(i), status[i]>>>>

\* The same for the requests that ended by a route miss, a rejection, an
\* upstream error or a response streamed to its end; no request is ever
\* observed twice.
ObservedOnceUnlessAborted ==
    \A i \in Reqs :
        /\ Len(observed[i]) <= 1
        /\ (pc[i] = "done" /\ outcome[i] \notin {"internal", "aborted"})
              => observed[i] = <<<<InboundLabel(i), status[i]>>>>

\* A route miss, a rejection, an upstream error and a success were observed.
ObservedKindsCase ==
    /\ {outcome[i] : i \in Reqs} \in {{"nomatch", "rejected", "ok"},
                                      {"error", "rejected", "ok"}}
    /\ \A i \in Reqs : Len(observed[i]) = 1

\* A response was cut while streaming and the request was not observed.
AbortedUnobservedCase ==
    \E i \in Reqs :
        /\ pc[i] = "done"
        /\ outcome[i] = "aborted"
        /\ status[i] = StatusOK
        /\ observed[i] = <<>>

\* C17: a request that matches no route is answered 404 'no route matched',
\* is not forwarded, takes no permit (the gate is as it was) and is observed
\* once as unmatched.
C17_RouteMiss404 ==
    /\ [](\A i \in Reqs :
            (pc[i] # "idle"
                /\ req[i].Path \notin {HealthzPath, ReadyzPath, MetricsPath}
                /\ ~\E k \in 1..Len(mirror.routes) :
                        SlashBoundedPrefix(mirror.routes[k].publicPrefix, req[i].Path))
                => /\ pc[i] = "done"
                   /\ status[i] = StatusNotFound
                   /\ body[i] = "no route matched"
                   /\ ~forwarded[i]
                   /\ ~permit[i]
                   /\ out[i] = NoOut
                   /\ observed[i] = <<<<Unmatched, StatusNotFound>>>>)
    /\ [][\A i \in Reqs :
            (pc[i] = "idle" /\ pc'[i] = "done" /\ status'[i] = StatusNotFound)
                => gate' = gate /\ gauge' = gauge]_vars

\* A request missed every route while the gate was full.
C17_Witness ==
    /\ mirror.cap > 0
    /\ gate = mirror.cap
    /\ \E i \in Reqs :
          /\ pc[i] = "done"
          /\ req[i].Path = <<"/", "v", "1", "/", "x">>
          /\ status[i] = StatusNotFound
          /\ observed[i] = <<<<Unmatched, StatusNotFound>>>>

(***************************************************************************)
(* Path mapping round trip (SpecRoute).                                    *)
(***************************************************************************)
\* The suffix the director joined to the base path.
RouteSuffix == stripPrefix(rtMatch, rtReq.Path)

\* C18: for every route r and suffix s beginning with '/', mapping the
\* forward-joined upstream path back gives joinPaths(r.publicPrefix, s).
C18_MapBackIsPublicJoin ==
    (rtPc = "back" /\ HasPrefix(RouteSuffix, Slash)) =>
        /\ rtOut.Path = joinUpstreamPath(rtMatch, RouteSuffix)
        /\ rtBack = joinPaths(rtMatch.publicPrefix, RouteSuffix)

\* /a/b was sent to base path /v1 as /v1/b and mapped back to /a/b.
C18_Witness ==
    /\ rtPc = "back"
    /\ rtMatch.publicPrefix = <<"/", "a">>
    /\ rtMatch.upstreamBasePath = <<"/", "v", "1">>
    /\ RouteSuffix = <<"/", "b">>
    /\ rtOut.Path = <<"/", "v", "1", "/", "b">>
    /\ rtBack = <<"/", "a", "/", "b">>

\* The round trip was made with a root prefix and a non-root base path, and
\* with a non-root prefix and a root base path.
C18_WitnessRoot ==
    /\ rtPc = "back"
    /\ HasPrefix(RouteSuffix, Slash)
    /\ Len(RouteSuffix) > 1
    /\ (rtMatch.publicPrefix = Slash) # (rtMatch.upstreamBasePath = Slash)

(***************************************************************************)
(* What response rewriting leaves alone (SpecRewrite).                     *)
(***************************************************************************)
\* The WWW-Authenticate values the upstream sent.
AuthIn == ResponseHeaders(rwResp).Auth

\* The pieces of the k-th value.
ValuePieces(k) == IF k = 1 THEN rwResp.pieces ELSE rwResp.more[k - 1]

\* No realm URL of the value is absolute and matches a route's upstream.
NothingRewritable(pieces) ==
    \A k \in 1..Len(pieces) : pieces[k].realm => ~Rewritable(pieces[k].url)

Answered == rwPc \in {"done", "panic"}

\* C19: a Location, or a WWW-Authenticate value, whose URL is not absolute or
\* matches no route's upstream reaches the client byte for byte as the
\* upstream sent it.
C19_UnmatchedURLUnchanged ==
    Answered =>
        /\ (rwResp.kind = "loc" /\ ~Rewritable(rwResp.url))
              => rwPc = "done" /\ rwOut.Location = rwResp.url.Raw
        /\ \A k \in 1..Len(AuthIn) :
              NothingRewritable(ValuePieces(k))
                  => rwPc = "done" /\ rwOut.Auth[k] = AuthIn[k]

\* The Location part of it.
UnmatchedLocationUnchanged ==
    (Answered /\ rwResp.kind = "loc" /\ ~Rewritable(rwResp.url)) =>
        rwPc = "done" /\ rwOut.Location = rwResp.url.Raw

\* Every value of the response is made of ASCII bytes.
AsciiValues == \A k \in 1..Len(AuthIn) : AsciiValue(ValuePieces(k))

\* The realm part of it, for the responses whose values are ASCII.
UnmatchedRealmUnchangedInAscii ==
    (Answered /\ AsciiValues) =>
        \A k \in 1..Len(AuthIn) :
            NothingRewritable(ValuePieces(k))
                => rwPc = "done" /\ rwOut.Auth[k] = AuthIn[k]

\* An absolute Location of an unknown host, and one that is not absolute,
\* reached the client unchanged on a mirror that rewrites.
UnmatchedLocationCase ==
    /\ rwPc = "done"
    /\ rwResp.kind = "loc"
    /\ HasPublicBase
    /\ rwResp.url.Host = <<"e">>
    /\ rwOut.Location = rwResp.url.Raw

\* A value whose realm URL matches no route made rewriteAuthHeader panic:
\* nothing reached the client.
UnmatchedRealmPanicCase ==
    /\ rwPc = "panic"
    /\ rwResp.kind = "auth"
    /\ NothingRewritable(rwResp.pieces)

\* C20: rewriting WWW-Authenticate keeps the number and the order of the
\* values: every value reaches the client in its place, as it was or with
\* its realm URLs rewritten, and a value with nothing rewritable in it (no
\* realm=, realm= at the end, a quote that is not closed, a URL that matches
\* no route) reaches the client identical.
C20_AuthValuesKept ==
    (Answered /\ rwResp.kind \in {"auth", "multi"}) =>
        /\ rwPc = "done"
        /\ Len(rwOut.Auth) = Len(AuthIn)
        /\ \A k \in 1..Len(AuthIn) :
              /\ rwOut.Auth[k] \in {AuthIn[k]} \cup ExpectedValues(rwBase, ValuePieces(k))
              /\ NothingRewritable(ValuePieces(k)) => rwOut.Auth[k] = AuthIn[k]

\* The same for the responses whose values are ASCII.
AuthValuesKeptInAscii ==
    (Answered /\ rwResp.kind \in {"auth", "multi"} /\ AsciiValues) =>
        /\ rwPc = "done"
        /\ Len(rwOut.Auth) = Len(AuthIn)
        /\ \A k \in 1..Len(AuthIn) :
              /\ rwOut.Auth[k] \in {AuthIn[k]} \cup ExpectedValues(rwBase, ValuePieces(k))
              /\ NothingRewritable(ValuePieces(k)) => rwOut.Auth[k] = AuthIn[k]

\* Of three values the second was rewritten; the first and the third, with
\* nothing rewritable, came out identical and in place.
AuthValuesReemittedCase ==
    /\ rwPc = "done"
    /\ rwResp.kind = "multi"
    /\ Len(AuthIn) = 3
    /\ AuthIn[1] # AuthIn[3]
    /\ NothingRewritable(ValuePieces(1))
    /\ NothingRewritable(ValuePieces(3))
    /\ rwOut.Auth[2] # AuthIn[2]
    /\ rwOut.Auth[1] = AuthIn[1]
    /\ rwOut.Auth[3] = AuthIn[3]

\* No value changed and the header is as the upstream sent it.
AuthHeaderUntouchedCase ==
    /\ rwPc = "done"
    /\ rwResp.kind = "multi"
    /\ HasPublicBase
    /\ Len(AuthIn) = 3
    /\ \A k \in 1..3 : NothingRewritable(ValuePieces(k))
    /\ rwOut.Auth = AuthIn

\* A response with a value of nothing rewritable and a byte above 0x7F made
\* rewriteAuthHeader panic.
AuthValuesPanicCase ==
    /\ rwPc = "panic"
    /\ rwResp.kind = "multi"
    /\ \A k \in 1..Len(AuthIn) : NothingRewritable(ValuePieces(k))

(***************************************************************************)
(* What a reload does not touch (SpecReload).                              *)
(***************************************************************************)
\* The http.Server is as main built it from its own runtime.
ServerAsStarted ==
    /\ rlMain.srv.Addr = rlMain.runtime.Server.Listen
    /\ rlMain.srv.ReadHeaderTimeout = rlMain.runtime.Server.ReadHeaderTimeout
    /\ rlMain.srv.IdleTimeout = rlMain.runtime.Server.IdleTimeout
    /\ rlMain.tls = rlMain.runtime.Server.TLS
    /\ rlMain.shutdown \in {0, rlMain.runtime.Server.ShutdownTimeout}

\* C21: a hot reload replaces the live ActiveState only: the listen address,
\* the server timeouts (the shutdown timeout used at termination among them)
\* and the listener's TLS material stay as at startup, whatever the
\* reloaded configurations say.
C21_ReloadKeepsServer ==
    /\ [](rlPc # "off" => ServerAsStarted)
    /\ [](rlPc = "down" => rlMain.shutdown = rlMain.runtime.Server.ShutdownTimeout)
    /\ [][/\ rlMain'.runtime = rlMain.runtime
          /\ rlMain'.srv = rlMain.srv
          /\ rlMain'.tls = rlMain.tls]_vars

\* After a reload to a configuration with another listen address, other
\* timeouts and a certificate, main shut the server down with the settings of
\* startup.
C21_Witness ==
    /\ rlPc = "down"
    /\ rlCurrent.id > 1
    /\ rlCurrent.runtime.Server = ListenB
    /\ rlMain.srv.Addr = ListenA.Listen
    /\ rlMain.tls = "none"
    /\ rlMain.shutdown = ListenA.ShutdownTimeout

(***************************************************************************)
(* Internal endpoints and the expired wait (Spec).                         *)
(***************************************************************************)
InternalPaths == {HealthzPath, ReadyzPath, MetricsPath}

\* Request i arrives in this step with the path of an internal endpoint.
ArrivesInternal(i) ==
    pc[i] = "idle" /\ pc'[i] # "idle" /\ req'[i].Path \in InternalPaths

\* C22: /_rmirror/healthz, /_rmirror/readyz and /metrics are answered by the
\* proxy itself under every route table (also one whose prefix covers them)
\* and in every state of the gate: never forwarded, no permit taken, the gate
\* left as it was; /_rmirror/healthz is always 200 'ok'.
C22_InternalAlwaysServed ==
    /\ [](\A i \in Reqs :
            (pc[i] # "idle" /\ req[i].Path \in InternalPaths) =>
                /\ pc[i] = "done"
                /\ status[i] \in {StatusOK, StatusServiceUnavailable}
                /\ status[i] = StatusServiceUnavailable => req[i].Path = ReadyzPath
                /\ ~forwarded[i]
                /\ ~permit[i]
                /\ out[i] = NoOut
                /\ observed[i] = <<>>
                /\ req[i].Path = HealthzPath
                      => status[i] = StatusOK /\ body[i] = "ok")
    /\ [][\A i \in Reqs :
            ArrivesInternal(i) => gate' = gate /\ gauge' = gauge /\ pc'[i] = "done"]_vars

\* Under a route of prefix / with its gate full, the three endpoints were
\* answered: healthz 200, readyz 503.
C22_Witness ==
    /\ mirror.routes[1].publicPrefix = Slash
    /\ gate = mirror.cap
    /\ \E i, j \in Reqs :
          /\ pc[i] = "done" /\ req[i].Path = HealthzPath /\ status[i] = StatusOK
          /\ pc[j] = "done" /\ req[j].Path = ReadyzPath
          /\ status[j] = StatusServiceUnavailable

\* The wait of request i ends in this step without a permit, its bound
\* elapsed and the client still there.
WaitExpires(i) ==
    pc[i] = "acquire" /\ pc'[i] = "done" /\ timerFired[i] /\ ~ctxDone[i]

FragmentationOff ==
    /\ fbT.primaryFragment = 0
    /\ ~handshakeFragmented(fbT.primaryFragment)
    /\ fbT.fallbackFragments = <<>>
    /\ ~fbT.chain

\* C23: with transport.first_fragment_len = 0 in the configuration, the
\* runtime transport has fragment length 0, its handshakes are not
\* fragmented and its fallback sequence is empty.
C23_ZeroDisablesFragmentation ==
    (fbPc = "done" /\ fbCfg.via = "Runtime" /\ fbCfg.len = 0)
        => /\ FragmentationOff
           /\ \A k \in 1..Len(fbAttempts) : ~handshakeFragmented(fbAttempts[k].frag)

\* A positive first_fragment_len reaches the transport as configured, and a
\* RuntimeTransport of length 0 given to NewTransport disables fragmentation.
FragmentLenKept ==
    /\ (fbPc # "off" /\ fbCfg.via = "Runtime" /\ fbCfg.len > 0)
          => /\ fbT.primaryFragment = fbCfg.len
             /\ handshakeFragmented(fbT.primaryFragment)
    /\ (fbPc # "off" /\ fbCfg.via = "caller" /\ fbCfg.len = 0) => FragmentationOff

\* Configured with 0, the transport fragments at 3 bytes and fell back to 1
\* and to 0.
ZeroFragmentsAtDefaultCase ==
    /\ fbPc = "done"
    /\ fbCfg = [via |-> "Runtime", len |-> 0]
    /\ fbT.primaryFragment = DefaultFirstFragmentLen
    /\ handshakeFragmented(fbT.primaryFragment)
    /\ fbCounted = <<<<3, 1>>, <<1, 0>>>>

\* Attempt k ended the round trip: it is the last one, its result was
\* returned, and the transitions recorded are those of the attempts made.
EndsRoundTrip(k) ==
    /\ k = Len(fbAttempts)
    /\ fbPc = "done"
    /\ fbRet = fbAttempts[k].res
    /\ Len(fbCounted) = k - 1

\* C25: an attempt (primary or fallback) that returns an HTTP response, 5xx
\* included, or fails with an error outside the connection-reset class ends
\* RoundTrip with that result: no further transport is invoked and no further
\* transition recorded; success on the primary is one attempt.
C25_ResultReturnedAtOnce ==
    \A k \in 1..Len(fbAttempts) :
        (fbAttempts[k].res.err.nil \/ ~ResetClass(fbAttempts[k].res.err))
            => EndsRoundTrip(k)

\* On a chain with two fallbacks, a retriable request got 502 from the
\* primary: one attempt, no transition; and another run ended at the first
\* fallback with a timeout.
C25_Witness ==
    /\ fbPc = "done"
    /\ fbT.fallbacks = 2
    /\ SafelyRetriable(fbReq)
    /\ \/ /\ fbAttempts = <<Attempt(0, fbT.primaryFragment,
                                    [resp |-> StatusBadGateway, err |-> NilErr])>>
          /\ fbCounted = <<>>
          /\ fbRet.resp = StatusBadGateway
       \/ /\ Len(fbAttempts) = 2
          /\ ~fbAttempts[2].res.err.nil
          /\ ~ResetClass(fbAttempts[2].res.err)
          /\ fbRet = fbAttempts[2].res

(***************************************************************************)
(* rewriteURL as a function of its inputs (Spec).                          *)
(***************************************************************************)
\* Calls with the same raw URL and the same PublicBase gave the same result.
SameInputsSameResult ==
    \A a \in rewrites, b \in rewrites :
        (a.raw = b.raw /\ a.pb = b.pb) => a.res = b.res

ProcessInflight == {j \in ReloadReqs : rlServed[j].pc = "upstream"}

\* C27: with max_inflight = N > 0 in the old and in the new configuration,
\* the proxied requests in flight in the process, those still running on the
\* pre-reload state and those admitted by the post-reload state together,
\* are never more than N.
C27_InflightAcrossReload ==
    rlPc # "off" => Cardinality(ProcessInflight) <= ReloadMaxInflight

\* Each Mirror keeps its own limit, and as long as no reload stored a new
\* state the process keeps it too.
InflightPerMirror ==
    /\ \A j \in ReloadReqs :
          rlServed[j].pc # "idle"
             => handlerInflight(rlServed, rlServed[j].state.handler.id)
                   <= rlServed[j].state.handler.m.cap
    /\ (rlPc # "off" /\ \A j \in ReloadReqs : rlServed[j].state.id \in {0, 1})
          => Cardinality(ProcessInflight) <= ReloadMaxInflight

\* One request in flight on the pre-reload Mirror and one admitted by the
\* Mirror of the reload, each within a limit of N.
InflightOverLimitCase ==
    \E i \in ReloadReqs, j \in ReloadReqs :
        /\ rlServed[i].pc = "upstream"
        /\ rlServed[j].pc = "upstream"
        /\ rlServed[i].state.handler.id < rlServed[j].state.handler.id
        /\ rlServed[j].state = rlCurrent
        /\ rlServed[i].state.handler.m.cap = ReloadMaxInflight
        /\ rlServed[j].state.handler.m.cap = ReloadMaxInflight
        /\ Cardinality(ProcessInflight) = ReloadMaxInflight + 1

\* A request turned away with 429 by the Mirror it entered, which was full.
InflightRejectedCase ==
    \E i \in ReloadReqs, j \in ReloadReqs :
        /\ rlServed[i].pc = "upstream"
        /\ rlServed[j].pc = "done"
        /\ rlServed[j].status = StatusTooManyRequests
        /\ rlServed[j].state.handler.id = rlServed[i].state.handler.id

(***************************************************************************)
(* The supervisor's runners and runner.stop (SpecSupervisor).              *)
(***************************************************************************)
\* A runner the supervisor made and has not stopped.
ActiveRunner(r) == svRunners[r].pc # "none" /\ ~svRunners[r].stopping

\* The loop of the runner has not returned.
LoopRunning(r) == svRunners[r].pc \notin {"none", "exited"}

InMap(r) == \E n \in InstanceNames : svMap[n] = r

\* The child the runner started is running.
ChildRunning(r) == svRunners[r].child \in {"up", "term"}

\* Every configured instance has one active runner, the one in the map, and
\* no runner outside the map has its loop or a child running.
OneRunnerPerInstance ==
    /\ \A s \in svApply.desired :
          /\ svMap[s.name] # 0
          /\ svRunners[svMap[s.name]].spec = s
          /\ {r \in RunnerIds : ActiveRunner(r) /\ svRunners[r].spec.name = s.name}
                = {svMap[s.name]}
    /\ \A r \in RunnerIds : (LoopRunning(r) \/ ChildRunning(r)) => InMap(r)

\* C28: after any sequence of Apply calls (instances unchanged, changed,
\* added or removed) every configured instance has exactly one active runner,
\* it is the runner in the supervisor's map, and no runner outside the map is
\* still running; so that once StopAll has returned no child the supervisor
\* started is running.
C28_OneRunnerPerInstance ==
    /\ (svApply.pc = "idle" /\ svApply.applied > 0) => OneRunnerPerInstance
    /\ svApply.pc = "down" => \A r \in RunnerIds : ~ChildRunning(r)

\* As long as no Apply found an instance changed, the claim holds.
OneRunnerWhileUnchanged ==
    ~svApply.changed => C28_OneRunnerPerInstance

\* After an Apply that found instance a changed, two runners of the new spec
\* run, one of them outside the map.
RunnerOutsideMapCase ==
    /\ svApply.pc = "idle"
    /\ svApply.applied = 2
    /\ \E r \in RunnerIds, q \in RunnerIds :
          /\ r # q
          /\ svMap["a"] = q
          /\ svRunners[r].spec = svRunners[q].spec
          /\ svRunners[r].pc = "wait"
          /\ svRunners[q].pc = "wait"
          /\ svRunners[r].child = "up"
          /\ svRunners[q].child = "up"

\* StopAll has returned and a child of a runner it never saw is running.
ChildLeftBehindCase ==
    /\ svApply.pc = "down"
    /\ \E r \in RunnerIds : svRunners[r].child = "up" /\ r \notin svReturned

\* Added, removed, unchanged (reloaded) and replaced after a failed reload.
ApplyKindsCase ==
    /\ svApply.pc = "idle"
    /\ svApply.applied = 2
    /\ ~svApply.changed
    /\ svMap["b"] # 0
    /\ svMap["a"] = 0
    /\ svReturned # {}

\* The stop call in progress is on runner r.
StopIssued(r) == svStop.runner = r /\ svStop.pc = "begin"

\* When stop has returned the loop of the runner has returned and no child
\* of it runs.
StopReturnedClean ==
    \A r \in svReturned : svRunners[r].pc = "exited" /\ ~ChildRunning(r)

\* C29: runner.stop always returns, and when it returns the runner's loop has
\* exited and no child of the runner is running, however stop interleaves
\* with the loop (before the child is started, while it is started and
\* registered, while it runs, during a backoff).
C29_StopAlwaysReturns ==
    /\ [](StopReturnedClean)
    /\ \A r \in RunnerIds : StopIssued(r) ~> (r \in svReturned)

\* stop returns whenever, at the moment it reads r.cmd, the loop is not
\* between its check of stopping and setCmd.
StopReturnsUnlessStarting ==
    \A r \in RunnerIds :
        (svStop.runner = r /\ svStop.pc = "select"
           /\ (svStop.cmd # 0 \/ svRunners[r].pc \notin {"exec", "set", "wait"}))
        ~> (r \in svReturned)

\* stop read a nil cmd while the loop was about to start the child: the
\* timeout has passed, nothing was killed, the child runs and stop waits.
StopHangsCase ==
    /\ svStop.pc = "final"
    /\ svStop.cmd = 0
    /\ svRunners[svStop.runner].pc = "wait"
    /\ svRunners[svStop.runner].child = "up"
    /\ svRunners[svStop.runner].stopping

\* stop returned for a runner stopped before its first child, for one whose
\* child ran, and for one in its backoff.
StopReturnedCase ==
    /\ \E r \in svReturned : svRunners[r].started = 0
    /\ \E r \in svReturned : svRunners[r].started > 0

(***************************************************************************)
(* Following a rewritten Location (SpecRewrite).                           *)
(***************************************************************************)
\* The route rewriteURL rewrote the Location through.
RewritingRoute ==
    matchUpstreamURL(rwMirror.routesByUpstream,
                     parseAbsoluteURL(ResponseHeaders(rwResp).Location))

\* C30: an absolute upstream URL u that rewriteURL rewrote to a public URL of
\* path p leads back to u when p is sent through the forward path
\* (matchRoute, stripPrefix, joinUpstreamPath): the route selected has u's
\* host as upstream and the upstream path is u's path, for every valid route
\* table.
C30_RewrittenURLLeadsBack ==
    rwPc = "followed" =>
        /\ rwFollow.ctxRoute # NilRoute
        /\ SameHost(rwFollow.URLHost, rwResp.url.Host)
        /\ rwFollow.Path = rwResp.url.Path

\* It does lead back when the forward path selects the route that rewrote
\* the URL and u has a path that lies below the base path of that route.
LeadsBackBelowBase ==
    (/\ rwPc = "followed"
     /\ rwFollow.ctxRoute = RewritingRoute
     /\ rwResp.url.Path # RewritingRoute.upstreamBasePath
     /\ ~(RewritingRoute.upstreamBasePath = Slash /\ rwResp.url.Path = <<>>))
        => /\ SameHost(rwFollow.URLHost, rwResp.url.Host)
           /\ rwFollow.Path = rwResp.url.Path

\* A Location that is the upstream base of its route comes back with a
\* slash added.
FollowAddsSlashCase ==
    /\ rwPc = "followed"
    /\ rwResp.url.Path = <<"/", "v", "1">>
    /\ rwFollow.ctxRoute = RewritingRoute
    /\ rwFollow.Path = <<"/", "v", "1", "/">>

\* A Location rewritten through the route of prefix / whose path begins with
\* the prefix of another route is forwarded to that route's upstream.
FollowOtherUpstreamCase ==
    /\ rwPc = "followed"
    /\ rwResp.url.Host = <<"r">>
    /\ rwFollow.ctxRoute # RewritingRoute
    /\ rwFollow.URLHost = <<"u">>

\* A Location below the base path of its route comes back as it was.
FollowLeadsBackCase ==
    /\ rwPc = "followed"
    /\ rwResp.url.Path = <<"/", "v", "1", "/", "x", "/", "y">>
    /\ rwFollow.URLHost = <<"u">>
    /\ rwFollow.Path = rwResp.url.Path

(***************************************************************************)
(* The order of the attempts (SpecFallbackFair).                           *)
(***************************************************************************)
\* The attempts made so far are the primary and then the fallbacks in their
\* order, each once, and each transition recorded starts from the fragment
\* length of the attempt before it.
AttemptsInOrder ==
    /\ Len(fbAttempts) <= 1 + fbT.fallbacks
    /\ \A k \in 1..Len(fbAttempts) : fbAttempts[k].transport = k - 1
    /\ Len(fbAttempts) > 0 => fbAttempts[1].frag = fbT.primaryFragment
    /\ \A k \in 2..Len(fbAttempts) : fbAttempts[k].frag = fbT.fallbackFragments[k - 1]
    /\ Len(fbCounted) <= Len(fbAttempts)
    /\ \A i \in 1..Len(fbCounted) : fbCounted[i][1] = fbAttempts[i].frag

\* C31: the attempts of one RoundTrip are the primary, then each fallback in
\* sequence order, each at most once: at most 1 + (number of fallbacks)
\* attempts; the 'from' of each recorded transition is the fragment length of
\* the attempt just before it, starting from the primary's; and RoundTrip
\* always terminates.
C31_AttemptsInOrderAndEnd ==
    /\ [](fbPc # "off" => AttemptsInOrder)
    /\ <>(fbPc = "done")

\* The whole chain was tried: primary at 3, fallbacks at 1 and at 0, with
\* the transitions 3 -> 1 and 1 -> 0 recorded.
C31_Witness ==
    /\ fbPc = "done"
    /\ Len(fbAttempts) = 3
    /\ fbAttempts[1].frag = 3
    /\ fbAttempts[2].frag = 1
    /\ fbAttempts[3].frag = 0
    /\ fbCounted = <<<<3, 1>>, <<1, 0>>>>


(***************************************************************************)
(* The dials and handshakes of DialTLSContext (SpecDial).                  *)
(***************************************************************************)
\* What may come after the step prev in one call: nothing after a
\* handshake that succeeded; the handshake with the configured fragment
\* length after a dial that succeeded; the second dial of the same address
\* after that handshake failed; the plain handshake after the second dial
\* succeeded; and the dial of the next address after a dial or the plain
\* handshake failed.
StepFollows(prev, step, frag) ==
    CASE prev.what = "dial" /\ prev.ok ->
            step.addr = prev.addr /\ step.what = "handshake" /\ step.frag = frag
      [] prev.what = "handshake" /\ ~prev.ok ->
            step.addr = prev.addr /\ step.what = "redial"
      [] prev.what = "redial" /\ prev.ok ->
            step.addr = prev.addr /\ step.what = "plain" /\ step.frag = 0
      [] prev.what \in {"dial", "redial", "plain"} /\ ~prev.ok ->
            step.addr = prev.addr + 1 /\ step.what = "dial"
      [] OTHER -> FALSE

\* C32: DialTLSContext goes through the resolved addresses in order; at each
\* address the first handshake uses the configured fragment length, and only
\* when it fails is the same address dialed again for a plain handshake; the
\* next address comes only after both failed or a dial failed.  The call
\* returns the first connection whose handshake succeeded, and when there is
\* none the last error it met.
C32_AddressesInOrderFragmentedThenPlain ==
    /\ \A k \in 1..Len(dlTried) :
          /\ dlTried[k].addr \in 1..Len(dlAddrs)
          /\ IF k = 1 THEN dlTried[k].addr = 1 /\ dlTried[k].what = "dial"
             ELSE StepFollows(dlTried[k - 1], dlTried[k], dlFrag)
    /\ dlPc = "returned" /\ dlTried # <<>> =>
          IF dlTried[Len(dlTried)].ok
          THEN /\ dlTried[Len(dlTried)].what \in {"handshake", "plain"}
               /\ dlRet = [conn |-> Len(dlConns), err |-> NoDialErr]
               /\ \A k \in 1..(Len(dlTried) - 1) :
                     dlTried[k].what \in {"handshake", "plain"} => ~dlTried[k].ok
          ELSE /\ dlTried[Len(dlTried)].addr = Len(dlAddrs)
               /\ dlRet = [conn |-> 0,
                           err |-> <<dlTried[Len(dlTried)].what, dlTried[Len(dlTried)].addr>>]

\* A call that failed at the first address with both handshakes and got its
\* connection from the plain handshake at the second.
C32_Witness ==
    /\ dlPc = "returned"
    /\ dlFrag = 3
    /\ Len(dlAddrs) = 2
    /\ Len(dlTried) = 8
    /\ dlTried[8] = DialStep(2, "plain", 0, TRUE)
    /\ dlRet.conn = 4

\* C33: when DialTLSContext has returned, every connection it opened other
\* than the one it returned is closed: none is open after an error, exactly
\* one after a success.
C33_OnlyTheReturnedConnectionOpen ==
    dlPc = "returned" =>
        \A c \in 1..Len(dlConns) : dlConns[c] <=> (c = dlRet.conn)

\* A call that opened four connections and returned none.
C33_Witness ==
    /\ dlPc = "returned"
    /\ Len(dlConns) = 4
    /\ dlRet.conn = 0
    /\ dlRet.err = <<"plain", 2>>

\* The probes of configureIPv6 ran at most once.
DecidedOnce == dlV6.probes <= 1

\* No address resolveHost returned, and none the dialer tried, is an IPv6
\* one while IPv6 is unavailable.
NoIPv6WhenUnavailable ==
    dlV6.done /\ ~dlV6.available =>
        /\ \A a \in 1..Len(dlAddrs) : dlAddrs[a] = "v4"
        /\ \A k \in 1..Len(dlTried) : dlAddrs[dlTried[k].addr] = "v4"

\* C38: the IPv6 decision of configureIPv6 is taken at most once in the
\* process, however many transports the reloads build, and does not change
\* afterwards; once IPv6 is unavailable resolveHost returns IPv4 addresses
\* only, and the dialer tries no IPv6 address.
C38_IPv6DecidedOnceAndKept ==
    /\ [](DecidedOnce /\ NoIPv6WhenUnavailable)
    /\ [][dlV6.done => dlV6'.available = dlV6.available]_vars

\* IPv6 found unavailable by the first of two NewTransport calls, and a
\* dial after the second that got a connection.
C38_Witness ==
    /\ dlV6 = [available |-> FALSE, done |-> TRUE, probes |-> 1]
    /\ dlTransports = 2
    /\ dlDials = 2
    /\ dlPc = "returned"
    /\ Len(dlAddrs) = 2
    /\ dlRet.conn = 1


(***************************************************************************)
(* The fallback lengths of a transport (SpecFallback).                     *)
(***************************************************************************)
\* C37: for a first fragment length F0 the fallback lengths are 1 then 0
\* when F0 > 1, 0 alone when F0 = 1, and none when F0 = 0, where NewTransport
\* returns the primary transport without a wrapper; a sequence that is not
\* empty decreases strictly, stays below F0 and ends in 0.
C37_FallbackLengths ==
    fbPc # "off" =>
        /\ fbT.primaryFragment > 1 => fbT.fallbackFragments = <<1, 0>>
        /\ fbT.primaryFragment = 1 => fbT.fallbackFragments = <<0>>
        /\ fbT.primaryFragment = 0 => fbT.fallbackFragments = <<>> /\ ~fbT.chain
        /\ fbT.fallbacks = Len(fbT.fallbackFragments)
        /\ fbT.fallbackFragments # <<>> =>
              /\ fbT.chain
              /\ \A i \in 1..Len(fbT.fallbackFragments) :
                    /\ fbT.fallbackFragments[i] < fbT.primaryFragment
                    /\ i > 1 => fbT.fallbackFragments[i] < fbT.fallbackFragments[i - 1]
              /\ fbT.fallbackFragments[Len(fbT.fallbackFragments)] = 0
        /\ \A k \in 2..Len(fbAttempts) :
              fbAttempts[k].frag < fbAttempts[k - 1].frag

\* A transport of length 2 whose request was tried at 2, at 1 and at 0.
C37_Witness ==
    /\ fbPc = "done"
    /\ fbT.primaryFragment = 2
    /\ Len(fbAttempts) = 3
    /\ fbAttempts[2].frag = 1
    /\ fbAttempts[3].frag = 0

\* A transport of length 0: the primary alone.
C37_WitnessZero ==
    /\ fbPc = "done"
    /\ fbT.primaryFragment = 0
    /\ ~fbT.chain
    /\ Len(fbAttempts) = 1


(***************************************************************************)
(* The PublicBase of a proxied request (SpecRewrite).                      *)
(***************************************************************************)
\* The request went through the director: its response is, or was, up for
\* rewriting.
PastDirector == rwPc \in {"sent", "done", "panic"}

\* The PublicBase is the static one when one is configured; otherwise its
\* host is the Host of the request and its scheme the first of the
\* comma-separated values of X-Forwarded-Proto when the header is there,
\* else https with TLS and http without.
PublicBaseAsDerived ==
    PastDirector =>
        IF rwMirror.publicBase # NilBase THEN rwBase = rwMirror.publicBase
        ELSE /\ rwBase.Host = rwReq.Host
             /\ rwBase.Scheme =
                    IF rwReq.XForwardedProto # <<>>
                    THEN TrimSpace(FirstCommaPart(rwReq.XForwardedProto))
                    ELSE IF rwReq.TLS THEN SchemeHTTPS ELSE SchemeHTTP

\* C36: every proxied request whose response is up for rewriting carries a
\* PublicBase with a scheme and a host, the static one or the one derived
\* from X-Forwarded-Proto, the listener and the Host of the request, so that
\* modifyResponse never skips the rewriting.
C36_PublicBaseHasSchemeAndHost ==
    /\ PublicBaseAsDerived
    /\ PastDirector => rwBase.Scheme # <<>> /\ rwBase.Host # <<>>

\* It has both when the request has a Host and the first value of its
\* X-Forwarded-Proto, if any, is not empty.
PublicBaseCompleteWithHostAndProto ==
    (PastDirector /\ rwReq.Host # <<>>
        /\ (rwReq.XForwardedProto # <<>> =>
                TrimSpace(FirstCommaPart(rwReq.XForwardedProto)) # <<>>)) =>
        rwBase.Scheme # <<>> /\ rwBase.Host # <<>>

\* A request with a Host whose X-Forwarded-Proto starts with a comma: the
\* scheme is empty and the matching Location went out as it came.
PublicBaseNoSchemeCase ==
    /\ rwPc = "done"
    /\ rwReq.Host # <<>>
    /\ rwBase.Scheme = <<>>
    /\ rwResp.kind = "loc"
    /\ Rewritable(rwResp.url)
    /\ rwOut.Location = rwResp.url.Raw


(***************************************************************************)
(* A response on its way to the client (SpecStream, SpecStreamFair).       *)
(***************************************************************************)
\* The headers modifyResponse makes of those the upstream sent.
RewrittenHeaders ==
    [Location |-> modifyResponse(StreamMirror, stBase, ResponseHeaders(stResp)).Location,
     Auth     |-> modifyResponse(StreamMirror, stBase, ResponseHeaders(stResp)).Auth]

Delivered == {stClient[i][2] : i \in {k \in 1..Len(stClient) : stClient[k][1] = "byte"}}

\* C40: a body byte received from the upstream reaches the client in the
\* end, by the periodic flush, also when the upstream then neither sends
\* more nor ends the body.
C40_ReceivedBytesAreFlushed ==
    \A b \in 1..MaxBody : (stRecv >= b) ~> (b \in Delivered)

\* What the client has is a prefix of what was received, and all of it once
\* the body has ended.
DeliveredInOrderAndAtEnd ==
    /\ \E n \in 0..stRecv : Delivered = 1..n
    /\ stPc = "end" => Delivered = 1..stRecv

\* The flush timer fired after the first byte of the body was written, and
\* the client has nothing, not even the headers.
FlushTimerWithoutEffectCase ==
    /\ stPc = "body"
    /\ stLen = "known"
    /\ stRecv = 1
    /\ ~stPending
    /\ stClient = <<>>
    /\ Len(stBuf) = 2

\* The same for a body of unknown length, flushed at each write.
ImmediateFlushWithoutEffectCase ==
    /\ stPc = "body"
    /\ stLen = "unknown"
    /\ stRecv = 1
    /\ stClient = <<>>
    /\ Len(stBuf) = 2


(***************************************************************************)
(* The reload signals (SpecSignal, SpecSignalFair).                        *)
(***************************************************************************)
\* Reload attempts do not overlap, and between attempts the live state is
\* the one the last successful attempt published.
ReloadsOneAtATime ==
    /\ sgRunning <= 1
    /\ sgRunning = 0 => sgLive = lastPublished(sgLog)

\* C35: every SIGHUP delivered while rmirror serves is followed by a reload
\* attempt that reads the configuration after the signal came (one attempt
\* may answer several signals); reload attempts never overlap, and when none
\* is under way the live state is the one the last successful attempt
\* published.
C35_EverySighupReloads ==
    /\ []ReloadsOneAtATime
    /\ \A s \in SignalIds : (s \in sgUnread) ~> (s \notin sgUnread)

\* Three signals, two of them during the first attempt, answered by two
\* attempts: the first failed, the second published the file as edited.
C35_Witness ==
    /\ sgPc = "recv"
    /\ sgSent = 3
    /\ sgChan = 0
    /\ Len(sgLog) = 2
    /\ ~sgLog[1].ok
    /\ sgLog[2] = [read |-> 2, ok |-> TRUE]
    /\ sgLive = 2
    /\ sgUnread = {}


(***************************************************************************)
(* Disabled instances (SpecSupervisor).                                    *)
(***************************************************************************)
\* A step that makes no runner and starts no child for an instance that
\* the configuration in force disables.
NoLaunchOfDisabled ==
    \A r \in RunnerIds :
        svRunners'[r].spec.name \in svDisabled' =>
            /\ svRunners[r].pc = "none" => svRunners'[r].pc = "none"
            /\ svRunners'[r].started = svRunners[r].started

\* C39: an instance with disabled: true is never launched: no runner is
\* created and no child is started for it, at startup or on a reload.
C39_DisabledNeverLaunched == [][NoLaunchOfDisabled]_vars

\* For the instances that are not disabled Apply makes the runners: when it
\* has returned each has one in the map.
EnabledInstancesHaveRunners ==
    (svApply.pc = "idle" /\ svApply.applied > 0) =>
        \A s \in svApply.desired : s.name \notin svDisabled => svMap[s.name] # 0

\* The first configuration has the one instance b, disabled: its runner was
\* made and its child runs.
DisabledLaunchedAtStartupCase ==
    /\ svApply.applied = 1
    /\ svDisabled = {"b"}
    /\ \E r \in RunnerIds :
          /\ svMap["b"] = r
          /\ svRunners[r].spec.name = "b"
          /\ svRunners[r].child = "up"

\* The same on a reload: a was running, the new configuration has b alone
\* and disabled.
DisabledLaunchedOnReloadCase ==
    /\ svApply.applied = 2
    /\ svDisabled = {"b"}
    /\ svMap["a"] = 0
    /\ \E r \in RunnerIds :
          /\ svMap["b"] = r
          /\ svRunners[r].child = "up"

=============================================================================
